---------------------------- MODULE Spec2Model ----------------------------
(***************************************************************************)
(* Harmonia Shortcuts: the keybindings.json mutation protocol              *)
(* (KeybindingsFileService) and the governance state store                 *)
(* (GovernanceService), as state machines.                                 *)
(*                                                                         *)
(* Strings are TLA+ strings; "-" \o command is the code's `-${command}`.   *)
(* A JavaScript `undefined` is the value Absent.  Timestamps (decidedAt,   *)
(* lastUpdated) are left out: no modelled operation reads them.            *)
(***************************************************************************)
EXTENDS Naturals, Integers, Sequences, FiniteSets, TLC

VARIABLES
    file,         \* keybindings.json: the array of entries it parses to
    everWritten,  \* ghost: every entry that some write() has put in the file
    mem,          \* GovernanceService.state (the in-memory object)
    persisted,    \* context.globalState[GOVERNANCE_STATE_KEY]
    fired,        \* ghost: the last onStateChanged notification
    last,         \* ghost: the most recent completed operation
    prevOp,       \* ghost: the operation before `last`
    tasks,        \* handler invocations in flight (the concurrent specification)
    updateQueue,  \* globalState.update calls not yet committed, in call order
    crashed,      \* the extension host was killed
    nOps,         \* ghost: operations started so far
    initialFile,  \* ghost: the file the user had before Harmonia's first action
    fileForm,     \* how the text of keybindings.json is written (see FileForms)
    snapshots,    \* context.globalState[SNAPSHOTS_KEY]
    created,      \* ghost: every snapshot created so far, in creation order
    arg,          \* the arguments a pure function is applied to
    host,         \* what globalState.update keeps: the object or a copy of it
    refs          \* ghost: which decisions objects are one and the same object

fileVars == <<file, everWritten>>
govVars  == <<mem, persisted, fired>>
histVars == <<last, prevOp>>
taskVars == <<tasks, updateQueue, crashed>>
vars     == <<file, everWritten, mem, persisted, fired, last, prevOp,
              tasks, updateQueue, crashed, nOps, initialFile,
              fileForm, snapshots, created, arg, host, refs>>
\* what the file service and the governance service leave alone
otherVars == <<fileForm, snapshots, created, arg, host, refs>>

---------------------------------------------------------------------------
(* Bounds of the model *)

\* longest keybindings.json the user starts with
MaxInit == 2
\* file service calls of one run of SpecFile
MaxCalls == 2
\* governance actions of one sequential run
MaxOps == 3
\* handler invocations of one concurrent run
MaxTasks == 2
\* longest list of user bindings, and of extension bindings, given to
\* detectConflicts
MaxBindings == 2

---------------------------------------------------------------------------
(* Values *)

Absent == "<undefined>"

\* JavaScript truthiness of an optional string: `if (when)`, `!kb.when`
Truthy(s) == s # Absent /\ s # ""

Keys == {"ctrl+k", "ctrl+j"}
Commands == {"ext.a", "ext.b"}
Whens == {Absent, "editorTextFocus"}

\* UserKeybindingEntry; `by` is a ghost field (who put the entry in the file)
\* that no operation of the program reads.
Entry(key, command, when, by) ==
    [key |-> key, command |-> command, when |-> when, by |-> by]

\* the entry as the program and VS Code see it
Plain(e) == [key |-> e.key, command |-> e.command, when |-> e.when]

PlainList(list) == [i \in 1..Len(list) |-> Plain(list[i])]

\* Entries the user may have written by hand before Harmonia ran: an own
\* negation of an extension command, an own binding of an extension command,
\* and entries of the other command.
UserEntries ==
    { Entry("ctrl+k", "-ext.a", Absent, "user"),
      Entry("ctrl+j", "ext.a", Absent, "user"),
      Entry("ctrl+k", "ext.b", "editorTextFocus", "user") }

SeqsUpTo(S, n) == UNION { [1..k -> S] : k \in 0..n }

InitialFiles == SeqsUpTo(UserEntries, MaxInit)

---------------------------------------------------------------------------
(* KeybindingsFileService: each method as a function of the list read() *)
(* returned, giving the list write() stores.                            *)

\* Array.prototype.findIndex, given the positions whose entry satisfies the
\* callback: the first of them; 0 stands for JavaScript's -1
findIndex(hits) ==
    IF hits = {} THEN 0 ELSE CHOOSE i \in hits : \A j \in hits : i <= j

\* keybindings.splice(index, 1)
splice(list, index) ==
    [i \in 1..(Len(list) - 1) |-> IF i < index THEN list[i] ELSE list[i + 1]]

\* addEntry: read, push, write
addEntry(list, entry) == Append(list, entry)

\* a mutant of deactivateKeybinding: unshift instead of push
deactivateUnshift(list, key, command, when) ==
    << Entry(key, "-" \o command,
             IF Truthy(when) THEN when ELSE Absent, "harmonia") >> \o list

deactivateKeybinding(list, key, command, when) ==
    addEntry(list, Entry(key, "-" \o command,
                         IF Truthy(when) THEN when ELSE Absent, "harmonia"))

restoreMatches(kb, key, command, when) ==
    /\ kb.key = key
    /\ kb.command = "-" \o command
    /\ IF Truthy(when) THEN kb.when = when ELSE ~Truthy(kb.when)

\* a mutant of restoreKeybinding: the context is not compared
restoreIgnoresWhen(list, key, command, when) ==
    LET index == findIndex({ i \in 1..Len(list) :
                        list[i].key = key /\ list[i].command = "-" \o command })
    IN  IF index = 0
        THEN [list |-> list, result |-> FALSE, wrote |-> FALSE]
        ELSE [list |-> splice(list, index), result |-> TRUE, wrote |-> TRUE]

restoreKeybinding(list, key, command, when) ==
    LET index == findIndex({ i \in 1..Len(list) :
                        restoreMatches(list[i], key, command, when) })
    IN  IF index = 0
        THEN [list |-> list, result |-> FALSE, wrote |-> FALSE]
        ELSE [list |-> splice(list, index), result |-> TRUE, wrote |-> TRUE]

\* a mutant of remapKeybinding: no cleanup of the command's earlier entries
remapWithoutCleanup(list, originalKey, newKey, command, when) ==
    list \o << Entry(originalKey, "-" \o command,
                     IF Truthy(when) THEN when ELSE Absent, "harmonia"),
               Entry(newKey, command,
                     IF Truthy(when) THEN when ELSE Absent, "harmonia") >>

remapKeybinding(list, originalKey, newKey, command, when) ==
    LET negatedCommand == "-" \o command
        kept == SelectSeq(list, LAMBDA kb :
                    ~(kb.command = negatedCommand) /\ ~(kb.command = command))
        negationEntry == Entry(originalKey, negatedCommand,
                               IF Truthy(when) THEN when ELSE Absent, "harmonia")
        newEntry == Entry(newKey, command,
                          IF Truthy(when) THEN when ELSE Absent, "harmonia")
    IN  kept \o <<negationEntry, newEntry>>

removeRemapEntries(list, command) ==
    LET negatedCommand == "-" \o command
        filtered == SelectSeq(list, LAMBDA kb :
                        kb.command # negatedCommand /\ kb.command # command)
    IN  IF Len(filtered) < Len(list)
        THEN [list |-> filtered, result |-> TRUE, wrote |-> TRUE]
        ELSE [list |-> list, result |-> FALSE, wrote |-> FALSE]

---------------------------------------------------------------------------
(* Ghost history *)

OpRecord(op, key, command, when, newKey, result, wrote, before) ==
    [op |-> op, key |-> key, command |-> command, when |-> when,
     newKey |-> newKey, result |-> result, wrote |-> wrote, before |-> before]

NoOp == OpRecord("none", Absent, Absent, Absent, Absent, FALSE, FALSE, <<>>)

EntriesOf(list) == { list[i] : i \in 1..Len(list) }


---------------------------------------------------------------------------
(* Governance state: GovernanceState without its timestamps *)

NoDecisions == [id \in {} |-> Absent]

\* createEmptyGovernanceState()
createEmptyGovernanceState == [decisions |-> NoDecisions, initialAuditComplete |-> FALSE]

NoFire == [seen |-> FALSE, state |-> createEmptyGovernanceState,
           stored |-> createEmptyGovernanceState]

NoTasks == [t \in {} |-> 0]

\* A Memento's update(key, value) keeps either the object it is given or a
\* copy of it; get(key) hands out what is kept.
Hosts == {"reference", "clone"}

\* refs.live names the object that is this.state.decisions and refs.of[n]
\* the object that is the decisions of the n-th snapshot created, as the
\* store holds it; equal names are one object. 0 is the object loadState
\* found or made.
NoRefs == [live |-> 0, of |-> << >>]

\* what every specification starts from, the file apart
InitBase ==
    /\ everWritten = {}
    /\ mem = createEmptyGovernanceState
    /\ persisted = createEmptyGovernanceState
    /\ fired = NoFire
    /\ last = NoOp
    /\ prevOp = NoOp
    /\ tasks = NoTasks
    /\ updateQueue = << >>
    /\ crashed = FALSE
    /\ nOps = 0
    /\ initialFile = file
    /\ refs = NoRefs

InitRest ==
    /\ InitBase
    /\ fileForm = "canonical"
    /\ snapshots = << >>
    /\ created = << >>
    /\ arg = Absent
    /\ host = "clone"

---------------------------------------------------------------------------
(* SpecFile: the file service's methods called one after the other, with *)
(* any arguments, on any list the user may have left in the file.        *)

FsWrite(list) ==
    /\ file' = list
    /\ everWritten' = everWritten \cup EntriesOf(list)

\* one more call of a run of SpecFile
Call ==
    /\ nOps < MaxCalls
    /\ nOps' = nOps + 1
    /\ UNCHANGED <<govVars, taskVars, initialFile, otherVars>>

FsDeactivate(key, command, when) ==
    /\ Call
    /\ FsWrite(deactivateKeybinding(file, key, command, when))
    /\ last' = OpRecord("deactivate", key, command, when, Absent, TRUE, TRUE, file)
    /\ prevOp' = last

FsRestore(key, command, when) ==
    LET r == restoreKeybinding(file, key, command, when)
    IN  /\ Call
        /\ IF r.wrote THEN FsWrite(r.list) ELSE UNCHANGED fileVars
        /\ last' = OpRecord("restore", key, command, when, Absent, r.result, r.wrote, file)
        /\ prevOp' = last

FsRemap(originalKey, newKey, command, when) ==
    /\ Call
    /\ FsWrite(remapKeybinding(file, originalKey, newKey, command, when))
    /\ last' = OpRecord("remap", originalKey, command, when, newKey, TRUE, TRUE, file)
    /\ prevOp' = last

FsRemoveRemap(command) ==
    LET r == removeRemapEntries(file, command)
    IN  /\ Call
        /\ IF r.wrote THEN FsWrite(r.list) ELSE UNCHANGED fileVars
        /\ last' = OpRecord("removeRemap", Absent, command, Absent, Absent,
                            r.result, r.wrote, file)
        /\ prevOp' = last

FsDeactivateAny == \E k \in Keys, c \in Commands, w \in Whens : FsDeactivate(k, c, w)

FsRestoreAny == \E k \in Keys, c \in Commands, w \in Whens : FsRestore(k, c, w)

FsRemapAny ==
    \E k \in Keys, c \in Commands, w \in Whens :
        \E n \in Keys \ {k} : FsRemap(k, n, c, w)

FsRemoveRemapAny == \E c \in Commands : FsRemoveRemap(c)

InitFile ==
    /\ file \in InitialFiles
    /\ InitRest

NextFile ==
    \/ FsDeactivateAny
    \/ FsRestoreAny
    \/ FsRemapAny
    \/ FsRemoveRemapAny

SpecFile == InitFile /\ [][NextFile]_vars

---------------------------------------------------------------------------
(* The installed extensions' keybindings, as KeybindingParser derives them *)

\* charCodeAt over the text of s, for the strings identities are derived of
charCodes(s) ==
    CASE s = "" -> << >>
      [] s = "ctrl+k" -> << 99, 116, 114, 108, 43, 107 >>
      [] s = "ctrl+j" -> << 99, 116, 114, 108, 43, 106 >>
      [] s = "ctrl+m" -> << 99, 116, 114, 108, 43, 109 >>
      [] s = "ctrl+x" -> << 99, 116, 114, 108, 43, 120 >>
      [] s = "ext.a" -> << 101, 120, 116, 46, 97 >>
      [] s = "ext.b" -> << 101, 120, 116, 46, 98 >>
      [] s = "gone" -> << 103, 111, 110, 101 >>
      [] s = "editorTextFocus" -> << 101, 100, 105, 116, 111, 114, 84, 101, 120, 116, 70, 111, 99, 117, 115 >>
      [] s = "!editorTextFocus" -> << 33, 101, 100, 105, 116, 111, 114, 84, 101, 120, 116, 70, 111, 99, 117, 115 >>
      [] s = "ctrl" -> << 99, 116, 114, 108 >>
      [] s = "shift" -> << 115, 104, 105, 102, 116 >>
      [] s = "k" -> << 107 >>
      [] s = "j" -> << 106 >>
      [] s = "m" -> << 109 >>
      [] s = "x" -> << 120 >>

\* `${key}|${command}|${when ?? ''}` as character codes
idInput(key, command, when) ==
    charCodes(key) \o << 124 >> \o charCodes(command) \o << 124 >>
        \o charCodes(IF when = Absent THEN "" ELSE when)

\* a 32-bit integer as its two 16-bit halves
Half == 65536

\* hash = ((hash << 5) - hash) + char; hash = hash & hash
hashStep(hash, char) ==
    LET lo == hash.lo * 31 + char
    IN  [lo |-> lo % Half, hi |-> (hash.hi * 31 + (lo \div Half)) % Half]

\* the loop over the input, from position i on
RECURSIVE hashLoop(_, _, _)
hashLoop(input, i, hash) ==
    IF i > Len(input) THEN hash
    ELSE LET next == hashStep(hash, input[i])
         \* the test holds always; it has TLC compute `next` before the call
         IN  IF next.lo < Half THEN hashLoop(input, i + 1, next) ELSE hash

\* Math.abs of the signed 32-bit value
abs32(hash) ==
    IF hash.hi < Half \div 2 THEN hash
    ELSE IF hash.lo = 0 THEN [hi |-> (Half - hash.hi) % Half, lo |-> 0]
    ELSE [hi |-> Half - 1 - hash.hi, lo |-> Half - hash.lo]

HexDigits == << "0", "1", "2", "3", "4", "5", "6", "7",
                "8", "9", "a", "b", "c", "d", "e", "f" >>

\* the four hexadecimal digits of a 16-bit half
hex4(n) ==
    << HexDigits[(n \div 4096) + 1], HexDigits[((n \div 256) % 16) + 1],
       HexDigits[((n \div 16) % 16) + 1], HexDigits[(n % 16) + 1] >>

RECURSIVE stripZeros(_)
stripZeros(digits) ==
    IF Len(digits) > 1 /\ Head(digits) = "0" THEN stripZeros(Tail(digits))
    ELSE digits

\* Number.prototype.toString(16): no leading zeros
toString16(n) == stripZeros(hex4(n.hi) \o hex4(n.lo))

RECURSIVE padStart(_, _, _)
padStart(chars, length, fill) ==
    IF Len(chars) >= length THEN chars
    ELSE padStart(<< fill >> \o chars, length, fill)

\* substring(0, end)
substring(chars, end) == SubSeq(chars, 1, IF Len(chars) < end THEN Len(chars) ELSE end)

RECURSIVE join(_)
join(chars) == IF chars = << >> THEN "" ELSE Head(chars) \o join(Tail(chars))

idHash(key, command, when) ==
    abs32(hashLoop(idInput(key, command, when), 1, [hi |-> 0, lo |-> 0]))

\* generateKeybindingId of types/keybinding.ts, the parser's derivation
generateKeybindingId(key, command, when) ==
    join(substring(padStart(toString16(idHash(key, command, when)), 8, "0"), 16))

\* AuditPanelProvider.generateKeybindingId, the derivation used when importing
AuditPanelProvider_generateKeybindingId(key, command, when) ==
    join(substring(toString16(idHash(key, command, when)), 16))

Keybinding(key, command, when, extensionId) ==
    [id |-> generateKeybindingId(key, command, when), key |-> key,
     command |-> command, when |-> when, source |-> "extension",
     extensionId |-> extensionId]

Extensions == {"pub.one", "pub.two"}

\* KeybindingParser.getAllExtensionKeybindings(), in enumeration order: one
\* command bound under two keys by one extension, and a second extension
\* binding another command to the first key
getAllExtensionKeybindings ==
    << Keybinding("ctrl+k", "ext.a", Absent, "pub.one"),
       Keybinding("ctrl+j", "ext.a", "editorTextFocus", "pub.one"),
       Keybinding("ctrl+k", "ext.b", Absent, "pub.two") >>

Bindings == { getAllExtensionKeybindings[i] : i \in 1..Len(getAllExtensionKeybindings) }

getKeybindingsForExtension(extensionId) ==
    SelectSeq(getAllExtensionKeybindings, LAMBDA kb : kb.extensionId = extensionId)

\* keys a remap may ask for
NewKeys == {"ctrl+m"}

---------------------------------------------------------------------------
(* GovernanceService, each method as a function of the state it works on *)

Statuses == {"pending", "approved", "deactivated", "remapped", "skipped"}

getStatus(state, keybindingId) ==
    IF keybindingId \in DOMAIN state.decisions
    THEN state.decisions[keybindingId].status
    ELSE "pending"

SetDecision(state, id, decision) ==
    [state EXCEPT !.decisions =
        [x \in DOMAIN state.decisions \cup {id} |->
            IF x = id THEN decision ELSE state.decisions[x]]]

\* a mutant of recordDecision: the new status is set on the decision already
\* recorded, whose keys stay
recordDecisionKeepsKeys(state, keybinding, status, remappedKey) ==
    LET withKeys == status = "remapped" /\ Truthy(remappedKey)
        old == IF keybinding.id \in DOMAIN state.decisions
               THEN state.decisions[keybinding.id]
               ELSE [originalKey |-> Absent, remappedKey |-> Absent]
    IN  SetDecision(state, keybinding.id,
            [keybindingId |-> keybinding.id, status |-> status,
             extensionId |-> keybinding.extensionId,
             originalKey |-> IF withKeys THEN keybinding.key ELSE old.originalKey,
             remappedKey |-> IF withKeys THEN remappedKey ELSE old.remappedKey])

\* recordDecision, up to its call of saveState
recordDecision(state, keybinding, status, remappedKey) ==
    LET withKeys == status = "remapped" /\ Truthy(remappedKey)
        decision == [keybindingId |-> keybinding.id, status |-> status,
                     extensionId |-> keybinding.extensionId,
                     originalKey |-> IF withKeys THEN keybinding.key ELSE Absent,
                     remappedKey |-> IF withKeys THEN remappedKey ELSE Absent]
    IN  SetDecision(state, keybinding.id, decision)

\* unapproveKeybinding, up to its call of saveState: delete state.decisions[id]
unapproveKeybinding(state, keybinding) ==
    [state EXCEPT !.decisions =
        [x \in DOMAIN state.decisions \ {keybinding.id} |-> state.decisions[x]]]

\* The file and the governance state a handler run to completion has reached;
\* `saved` tells that saveState() ran (every method that changes the state
\* ends with it).
World(f, st) == [file |-> f, state |-> st, saved |-> TRUE]

applyDecision(w, keybinding, action, newKey) ==
    IF action = "deactivate"
    THEN World(deactivateKeybinding(w.file, keybinding.key, keybinding.command,
                                    keybinding.when),
               recordDecision(w.state, keybinding, "deactivated", Absent))
    ELSE IF action = "remap" /\ Truthy(newKey)
    THEN World(remapKeybinding(w.file, keybinding.key, newKey, keybinding.command,
                               keybinding.when),
               recordDecision(w.state, keybinding, "remapped", newKey))
    ELSE w

approveKeybinding(w, keybinding) ==
    World(w.file, recordDecision(w.state, keybinding, "approved", Absent))

skipKeybinding(w, keybinding) ==
    World(w.file, recordDecision(w.state, keybinding, "skipped", Absent))

\* GovernanceService.restoreKeybinding
restoreDeactivated(w, keybinding) ==
    World(restoreKeybinding(w.file, keybinding.key, keybinding.command,
                            keybinding.when).list,
          recordDecision(w.state, keybinding, "pending", Absent))

restoreRemappedKeybinding(w, keybinding) ==
    World(removeRemapEntries(w.file, keybinding.command).list,
          recordDecision(w.state, keybinding, "pending", Absent))

\* the loop shared by the batch methods: for each binding of the list whose
\* status is `status`, in order, apply the method named by `what`
RECURSIVE ForEachCounted(_, _, _, _, _)
ForEachCounted(w, list, status, what, count) ==
    IF list = << >> THEN [w |-> w, count |-> count]
    ELSE LET kb == Head(list)
             hit == getStatus(w.state, kb.id) = status
             next == IF ~hit THEN w
                     ELSE CASE what = "approve" -> approveKeybinding(w, kb)
                            [] what = "deactivate" -> applyDecision(w, kb, "deactivate", Absent)
                            [] what = "restore" -> restoreDeactivated(w, kb)
                            [] what = "unapprove" ->
                                 World(w.file, unapproveKeybinding(w.state, kb))
         IN  ForEachCounted(next, Tail(list), status, what,
                            IF hit THEN count + 1 ELSE count)

\* the state the loop leaves
ForEachWithStatus(w, list, status, what) == ForEachCounted(w, list, status, what, 0).w

\* approveAllFromExtension: what it leaves and the count it returns
approveAllCounted(w, extensionId) ==
    ForEachCounted(w, getKeybindingsForExtension(extensionId), "pending", "approve", 0)

approveAllFromExtension(w, extensionId) == approveAllCounted(w, extensionId).w

\* a mutant of deactivateAllCounted: the count is that of the extension's
\* bindings
deactivateAllCountsAll(w, extensionId) ==
    [w |-> ForEachWithStatus(w, getKeybindingsForExtension(extensionId), "pending",
                             "deactivate"),
     count |-> Len(getKeybindingsForExtension(extensionId))]

\* deactivateAllFromExtension: what it leaves and the count it returns
deactivateAllCounted(w, extensionId) ==
    ForEachCounted(w, getKeybindingsForExtension(extensionId), "pending", "deactivate", 0)

deactivateAllFromExtension(w, extensionId) == deactivateAllCounted(w, extensionId).w

restoreAllFromExtension(w, extensionId) ==
    ForEachWithStatus(w, getKeybindingsForExtension(extensionId), "deactivated", "restore")

unapproveAllFromExtension(w, extensionId) ==
    ForEachWithStatus(w, getKeybindingsForExtension(extensionId), "approved", "unapprove")

\* cleanupKeybindingsFile: the decisions are read, the file alone is changed
RECURSIVE cleanupKeybindingsFile(_, _, _)
cleanupKeybindingsFile(f, state, list) ==
    IF list = << >> THEN f
    ELSE LET kb == Head(list)
             status == IF kb.id \in DOMAIN state.decisions
                       THEN state.decisions[kb.id].status ELSE Absent
             next == IF status = "deactivated"
                     THEN restoreKeybinding(f, kb.key, kb.command, kb.when).list
                     ELSE IF status = "remapped"
                     THEN removeRemapEntries(f, kb.command).list
                     ELSE f
         IN  cleanupKeybindingsFile(next, state, Tail(list))

\* prepareForUninstall: cleanupKeybindingsFile, then resetAllDecisions
prepareForUninstall(w) ==
    World(cleanupKeybindingsFile(w.file, w.state, getAllExtensionKeybindings),
          createEmptyGovernanceState)

---------------------------------------------------------------------------
(* Import of a backup document (AuditPanelProvider.handleMessage) *)

\* longest list of shortcuts in an imported document
MaxDoc == 1

Shortcut(key, command, when, status, remappedKey, extensionId) ==
    [key |-> key, command |-> command, when |-> when, status |-> status,
     remappedKey |-> remappedKey, extensionId |-> extensionId]

\* entries a backup document may hold: decisions about installed bindings,
\* a remap without its key, and an entry without a status
ImportShortcuts ==
    { Shortcut("ctrl+k", "ext.a", Absent, "deactivated", Absent, "pub.one"),
      Shortcut("ctrl+k", "ext.a", Absent, "remapped", "ctrl+m", "pub.one"),
      Shortcut("ctrl+k", "ext.b", Absent, "remapped", Absent, "pub.two"),
      Shortcut("ctrl+j", "ext.a", "editorTextFocus", "approved", Absent, "pub.one"),
      Shortcut("ctrl+k", "ext.b", Absent, "skipped", Absent, "pub.two"),
      Shortcut("ctrl+k", "ext.b", Absent, Absent, Absent, "pub.two") }

ImportDocuments == SeqsUpTo(ImportShortcuts, MaxDoc) \ { << >> }

\* the Keybinding the importSettings case builds of a shortcut, its id derived
\* by the provider's own generateKeybindingId
ImportedKeybinding ==
    [sc \in ImportShortcuts |->
        [id |-> AuditPanelProvider_generateKeybindingId(sc.key, sc.command, sc.when),
         key |-> sc.key, command |-> sc.command, when |-> sc.when,
         source |-> "extension", extensionId |-> sc.extensionId]]

\* the loop of the importSettings case over the document's shortcuts
RECURSIVE importShortcuts(_, _)
importShortcuts(w, shortcuts) ==
    IF shortcuts = << >> THEN w
    ELSE LET sc == Head(shortcuts)
             kb == ImportedKeybinding[sc]
             next ==
                IF ~Truthy(sc.key) \/ ~Truthy(sc.command) \/ ~Truthy(sc.status) THEN w
                ELSE IF sc.status = "deactivated"
                THEN applyDecision(w, kb, "deactivate", Absent)
                ELSE IF sc.status = "remapped" /\ Truthy(sc.remappedKey)
                THEN applyDecision(w, kb, "remap", sc.remappedKey)
                ELSE IF sc.status = "approved" THEN approveKeybinding(w, kb)
                ELSE IF sc.status = "skipped" THEN skipKeybinding(w, kb)
                ELSE w
         IN  importShortcuts(next, Tail(shortcuts))


---------------------------------------------------------------------------
(* Spec: the governance actions, one handler at a time, each run to its end *)

\* the files a run of Spec may start from
UserFiles == SeqsUpTo(UserEntries, 1)

GovOp(name) == [op |-> name, id |-> Absent, result |-> Absent, before |-> Absent]

\* where a handler starts
Start == [file |-> file, state |-> mem, saved |-> FALSE]

\* the handler `name` has run to its end and left w
Done(name, w) ==
    /\ nOps < MaxOps
    /\ nOps' = nOps + 1
    /\ file' = w.file
    /\ everWritten' = everWritten \cup (IF w.file # file THEN EntriesOf(w.file) ELSE {})
    /\ mem' = w.state
    /\ persisted' = IF w.saved THEN w.state ELSE persisted
    /\ fired' = IF w.saved
                THEN [seen |-> TRUE, state |-> w.state, stored |-> w.state]
                ELSE fired
    /\ last' = GovOp(name)
    /\ UNCHANGED <<prevOp, taskVars, initialFile, otherVars>>

\* The panel offers Approve on an unreviewed binding; Deactivate and Remap on
\* an unreviewed binding and on a binding of a conflict (one that is neither
\* deactivated nor remapped); Change on a remapped one; Undo and Restore on
\* the decided ones.
Approve(kb) ==
    /\ getStatus(mem, kb.id) = "pending"
    /\ Done("approve", approveKeybinding(Start, kb))

Deactivate(kb) ==
    /\ getStatus(mem, kb.id) \notin {"deactivated", "remapped"}
    /\ Done("deactivate", applyDecision(Start, kb, "deactivate", Absent))

Remap(kb, newKey) ==
    /\ getStatus(mem, kb.id) # "deactivated"
    /\ Done("remap", applyDecision(Start, kb, "remap", newKey))

Skip(kb) ==
    /\ getStatus(mem, kb.id) = "pending"
    /\ Done("skip", skipKeybinding(Start, kb))

ApproveAll(extensionId) ==
    Done("approveAll", approveAllFromExtension(Start, extensionId))

DeactivateAll(extensionId, confirmed) ==
    Done("deactivateAll",
         IF confirmed THEN deactivateAllFromExtension(Start, extensionId) ELSE Start)

Restore(kb) ==
    /\ getStatus(mem, kb.id) = "deactivated"
    /\ Done("restore", restoreDeactivated(Start, kb))

RestoreAll(extensionId) ==
    Done("restoreAll", restoreAllFromExtension(Start, extensionId))

Unapprove(kb) ==
    /\ getStatus(mem, kb.id) = "approved"
    /\ Done("unapprove", World(file, unapproveKeybinding(mem, kb)))

UnapproveAll(extensionId) ==
    Done("unapproveAll", unapproveAllFromExtension(Start, extensionId))

RestoreRemap(kb) ==
    /\ getStatus(mem, kb.id) = "remapped"
    /\ Done("restoreRemap", restoreRemappedKeybinding(Start, kb))

ImportSettings(document) ==
    Done("import", importShortcuts(Start, document))

PrepareForUninstall ==
    Done("uninstall", prepareForUninstall(Start))

\* ids a status may be asked for: the installed bindings' and one of no binding
StatusIds == { kb.id : kb \in Bindings } \cup { generateKeybindingId("ctrl+x", "gone", Absent) }

\* a mutant of GetStatus: the default is stored when it is handed out
GetStatusStoresDefault(keybindingId) ==
    /\ nOps < MaxOps
    /\ nOps' = nOps + 1
    /\ last' = [op |-> "getStatus", id |-> keybindingId,
                result |-> getStatus(mem, keybindingId),
                before |-> [mem |-> mem, persisted |-> persisted, fired |-> fired]]
    /\ mem' = IF keybindingId \in DOMAIN mem.decisions THEN mem
              ELSE SetDecision(mem, keybindingId,
                      [keybindingId |-> keybindingId, status |-> "pending",
                       extensionId |-> Absent, originalKey |-> Absent,
                       remappedKey |-> Absent])
    /\ UNCHANGED <<fileVars, persisted, fired, prevOp, taskVars, initialFile, otherVars>>

\* GovernanceService.getStatus called on the live state
GetStatus(keybindingId) ==
    /\ nOps < MaxOps
    /\ nOps' = nOps + 1
    /\ last' = [op |-> "getStatus", id |-> keybindingId,
                result |-> getStatus(mem, keybindingId),
                before |-> [mem |-> mem, persisted |-> persisted, fired |-> fired]]
    /\ UNCHANGED <<fileVars, govVars, prevOp, taskVars, initialFile, otherVars>>

ApproveAny == \E kb \in Bindings : Approve(kb)
DeactivateAny == \E kb \in Bindings : Deactivate(kb)
RemapAny == \E kb \in Bindings, k \in NewKeys : Remap(kb, k)
SkipAny == \E kb \in Bindings : Skip(kb)
ApproveAllAny == \E e \in Extensions : ApproveAll(e)
DeactivateAllAny == \E e \in Extensions, c \in BOOLEAN : DeactivateAll(e, c)
RestoreAny == \E kb \in Bindings : Restore(kb)
RestoreAllAny == \E e \in Extensions : RestoreAll(e)
UnapproveAny == \E kb \in Bindings : Unapprove(kb)
UnapproveAllAny == \E e \in Extensions : UnapproveAll(e)
RestoreRemapAny == \E kb \in Bindings : RestoreRemap(kb)
ImportSettingsAny == \E d \in ImportDocuments : ImportSettings(d)
GetStatusAny == \E id \in StatusIds : GetStatus(id)

Init ==
    /\ file \in UserFiles
    /\ InitRest

Next ==
    \/ ApproveAny
    \/ DeactivateAny
    \/ RemapAny
    \/ SkipAny
    \/ ApproveAllAny
    \/ DeactivateAllAny
    \/ RestoreAny
    \/ RestoreAllAny
    \/ UnapproveAny
    \/ UnapproveAllAny
    \/ RestoreRemapAny
    \/ ImportSettingsAny
    \/ PrepareForUninstall
    \/ GetStatusAny

Spec == Init /\ [][Next]_vars

---------------------------------------------------------------------------
(* SpecConc: handlers in flight together, suspended at each await *)

\* AuditPanelProvider.handleMessage is not awaited by the webview's emitter:
\* a second message starts its handler while the first is suspended.
ConcBindings == { getAllExtensionKeybindings[1], getAllExtensionKeybindings[3] }

ConcOps == {"deactivate", "remap", "approve", "unapprove"}

\* the files a run of SpecConc may start from
ConcFiles == { << >>, << Entry("ctrl+j", "ext.a", Absent, "user") >> }

\* a mutant of applyDecisionSteps: the decision is recorded before the file
\* is written
applyDecisionRecordsFirst == <<"record", "update", "fire", "read", "write">>

\* applyDecision as the points it is suspended at: the file service's read()
\* and write(), then recordDecision's assignment with the call of
\* globalState.update(), the completion of that update, and the fire()
applyDecisionSteps == <<"read", "write", "record", "update", "fire">>

\* approveKeybinding: recordDecision alone
approveKeybindingSteps == <<"record", "update", "fire">>

\* unapproveKeybinding: the decision is deleted in the live state, then
\* saveState
unapproveKeybindingSteps == <<"record", "update", "fire">>

StepsOf(op) ==
    CASE op = "approve" -> approveKeybindingSteps
      [] op = "unapprove" -> unapproveKeybindingSteps
      [] OTHER -> applyDecisionSteps

Task(op, kb, newKey) == [op |-> op, kb |-> kb, newKey |-> newKey, pc |-> 1, snap |-> << >>]

AtStep(i, step) ==
    /\ i \in DOMAIN tasks
    /\ tasks[i].pc <= Len(StepsOf(tasks[i].op))
    /\ StepsOf(tasks[i].op)[tasks[i].pc] = step

Advance(i) == [tasks EXCEPT ![i].pc = @ + 1]

ghostVars == <<last, prevOp, nOps, initialFile, otherVars>>

\* a message arrives: handleMessage finds the binding and calls the service
StartTask(op, kb) ==
    /\ ~crashed
    /\ Len(tasks) < MaxTasks
    /\ tasks' = Append(tasks,
                       Task(op, kb, IF op = "remap" THEN "ctrl+m" ELSE Absent))
    /\ UNCHANGED <<fileVars, govVars, updateQueue, crashed, ghostVars>>

\* KeybindingsFileService.read() completes
ReadFile(i) ==
    /\ ~crashed
    /\ AtStep(i, "read")
    /\ tasks' = [Advance(i) EXCEPT ![i].snap = file]
    /\ UNCHANGED <<fileVars, govVars, updateQueue, crashed, ghostVars>>

\* KeybindingsFileService.write() of the list built from what was read
WriteFile(i) ==
    /\ ~crashed
    /\ AtStep(i, "write")
    /\ LET t == tasks[i]
           list == IF t.op = "deactivate"
                   THEN deactivateKeybinding(t.snap, t.kb.key, t.kb.command, t.kb.when)
                   ELSE remapKeybinding(t.snap, t.kb.key, t.newKey, t.kb.command,
                                        t.kb.when)
       IN  FsWrite(list)
    /\ tasks' = Advance(i)
    /\ UNCHANGED <<govVars, updateQueue, crashed, ghostVars>>

\* a mutant of Record: the decision is assigned in a copy of the state that
\* was stored last
RecordInStored(i) ==
    /\ ~crashed
    /\ AtStep(i, "record")
    /\ LET t == tasks[i]
           status == CASE t.op = "deactivate" -> "deactivated"
                       [] t.op = "remap" -> "remapped"
                       [] OTHER -> "approved"
           state == IF t.op = "unapprove"
                    THEN unapproveKeybinding(persisted, t.kb)
                    ELSE recordDecision(persisted, t.kb, status, t.newKey)
       IN  /\ mem' = state
           /\ updateQueue' = Append(updateQueue, [task |-> i, state |-> state])
    /\ tasks' = Advance(i)
    /\ UNCHANGED <<fileVars, persisted, fired, crashed, ghostVars>>

\* recordDecision, or unapproveKeybinding, up to the await in saveState: the
\* decision is assigned, or deleted, in the live state and
\* globalState.update() is called with it
Record(i) ==
    /\ ~crashed
    /\ AtStep(i, "record")
    /\ LET t == tasks[i]
           status == CASE t.op = "deactivate" -> "deactivated"
                       [] t.op = "remap" -> "remapped"
                       [] OTHER -> "approved"
           state == IF t.op = "unapprove"
                    THEN unapproveKeybinding(mem, t.kb)
                    ELSE recordDecision(mem, t.kb, status, t.newKey)
       IN  /\ mem' = state
           /\ updateQueue' = Append(updateQueue, [task |-> i, state |-> state])
    /\ tasks' = Advance(i)
    /\ UNCHANGED <<fileVars, persisted, fired, crashed, ghostVars>>

\* globalState.update() completes: the value it was called with is stored;
\* updates complete in the order they were called
CompleteUpdate(i) ==
    /\ ~crashed
    /\ AtStep(i, "update")
    /\ updateQueue # << >>
    /\ Head(updateQueue).task = i
    /\ persisted' = Head(updateQueue).state
    /\ updateQueue' = Tail(updateQueue)
    /\ tasks' = Advance(i)
    /\ UNCHANGED <<fileVars, mem, fired, crashed, ghostVars>>

\* saveState resumes: _onStateChanged.fire(this.state), the live object
Fire(i) ==
    /\ ~crashed
    /\ AtStep(i, "fire")
    /\ fired' = [seen |-> TRUE, state |-> mem, stored |-> persisted]
    /\ tasks' = Advance(i)
    /\ UNCHANGED <<fileVars, mem, persisted, updateQueue, crashed, ghostVars>>

\* the extension host dies: the handlers in flight and the updates not yet
\* completed are lost; loadState() of the next activation reads the store
Crash ==
    /\ ~crashed
    /\ tasks # << >>
    /\ crashed' = TRUE
    /\ mem' = persisted
    /\ updateQueue' = << >>
    /\ UNCHANGED <<fileVars, persisted, fired, tasks, ghostVars>>

StartTaskAny == \E op \in ConcOps, kb \in ConcBindings : StartTask(op, kb)
ReadFileAny == \E i \in DOMAIN tasks : ReadFile(i)
WriteFileAny == \E i \in DOMAIN tasks : WriteFile(i)
RecordAny == \E i \in DOMAIN tasks : Record(i)
CompleteUpdateAny == \E i \in DOMAIN tasks : CompleteUpdate(i)
FireAny == \E i \in DOMAIN tasks : Fire(i)

InitConc ==
    /\ file \in ConcFiles
    /\ InitRest

NextConc ==
    \/ StartTaskAny
    \/ ReadFileAny
    \/ WriteFileAny
    \/ RecordAny
    \/ CompleteUpdateAny
    \/ FireAny
    \/ Crash

SpecConc == InitConc /\ [][NextConc]_vars

---------------------------------------------------------------------------
(* normalizeKey (types/keybinding.ts) *)

\* String.prototype.toLowerCase on the keys of the model
toLowerCase(key) ==
    CASE key = "Ctrl+K" -> "ctrl+k"
      [] key = "Ctrl + K" -> "ctrl + k"
      [] key = "Ctrl+Shift+K" -> "ctrl+shift+k"
      [] OTHER -> key

\* split('+') on the lower-case keys of the model
split(key) ==
    CASE key = "ctrl+k" -> << "ctrl", "k" >>
      [] key = "ctrl+j" -> << "ctrl", "j" >>
      [] key = "ctrl+m" -> << "ctrl", "m" >>
      [] key = "ctrl+x" -> << "ctrl", "x" >>
      [] key = "k+ctrl" -> << "k", "ctrl" >>
      [] key = "ctrl + k" -> << "ctrl ", " k" >>
      [] key = "ctrl+shift+k" -> << "ctrl", "shift", "k" >>
      [] key = "shift+ctrl+k" -> << "shift", "ctrl", "k" >>
      [] key = "ctrl+k+shift" -> << "ctrl", "k", "shift" >>

\* String.prototype.trim on the parts split() yields
trim(part) ==
    CASE part = "ctrl " -> "ctrl"
      [] part = " k" -> "k"
      [] OTHER -> part

\* a < b in the order of Array.prototype.sort: by UTF-16 code units
RECURSIVE codesLess(_, _)
codesLess(a, b) ==
    IF b = << >> THEN FALSE
    ELSE IF a = << >> THEN TRUE
    ELSE IF Head(a) # Head(b) THEN Head(a) < Head(b)
    ELSE codesLess(Tail(a), Tail(b))

RECURSIVE insertSorted(_, _)
insertSorted(sorted, x) ==
    IF sorted = << >> THEN << x >>
    ELSE IF codesLess(charCodes(x), charCodes(Head(sorted)))
    THEN << x >> \o sorted
    ELSE << Head(sorted) >> \o insertSorted(Tail(sorted), x)

\* Array.prototype.sort() of strings
RECURSIVE sort(_)
sort(parts) ==
    IF parts = << >> THEN << >>
    ELSE insertSorted(sort(SubSeq(parts, 1, Len(parts) - 1)), parts[Len(parts)])

\* Array.prototype.join(sep)
RECURSIVE joinWith(_, _)
joinWith(parts, sep) ==
    IF parts = << >> THEN ""
    ELSE IF Len(parts) = 1 THEN parts[1]
    ELSE parts[1] \o sep \o joinWith(Tail(parts), sep)

trimAll(parts) == [i \in 1..Len(parts) |-> trim(parts[i])]

\* a mutant of normalizeKey: the parts are not sorted
normalizeKeyUnsorted(key) == joinWith(trimAll(split(toLowerCase(key))), "+")

normalizeKey(key) == joinWith(sort(trimAll(split(toLowerCase(key)))), "+")

---------------------------------------------------------------------------
(* ConflictService *)

\* when.split(/\s*&&\s*/) on the contexts of the model
splitAnd(when) ==
    CASE when = "editorTextFocus" -> << "editorTextFocus" >>
      [] when = "!editorTextFocus" -> << "!editorTextFocus" >>
      [] when = "editorTextFocus && !inDebugMode" -> << "editorTextFocus", "!inDebugMode" >>
      [] when = "!inDebugMode" -> << "!inDebugMode" >>
      [] when = "resourceLangId == python" -> << "resourceLangId == python" >>
      [] when = "resourceLangId == javascript" -> << "resourceLangId == javascript" >>
      [] when = "editorTextFocus == true" -> << "editorTextFocus == true" >>
      [] when = "inDebugMode == false" -> << "inDebugMode == false" >>
      [] when = "editorTextFocus && resourceLangId == python" ->
            << "editorTextFocus", "resourceLangId == python" >>
      [] when = "!editorTextFocus&&resourceLangId == javascript" ->
            << "!editorTextFocus", "resourceLangId == javascript" >>
      [] when = "resourceLangId == python && !inDebugMode" ->
            << "resourceLangId == python", "!inDebugMode" >>

\* trimmed.startsWith('!') and trimmed.substring(1), on the parts of the model
startsWithBang(part) == part \in {"!editorTextFocus", "!inDebugMode"}

substring1(part) ==
    CASE part = "!editorTextFocus" -> "editorTextFocus"
      [] part = "!inDebugMode" -> "inDebugMode"

\* trimmed.includes('==') and trimmed.split('==').map(s => s.trim())
includesEquals(part) ==
    part \in {"resourceLangId == python", "resourceLangId == javascript",
              "editorTextFocus == true", "inDebugMode == false"}

splitEquals(part) ==
    CASE part = "resourceLangId == python" -> << "resourceLangId", "python" >>
      [] part = "resourceLangId == javascript" -> << "resourceLangId", "javascript" >>
      [] part = "editorTextFocus == true" -> << "editorTextFocus", "true" >>
      [] part = "inDebugMode == false" -> << "inDebugMode", "false" >>

\* one part of a context as parseWhenConditions reads it: "!flag" sets the
\* flag false, "key == value" sets the key to whether the value is the word
\* true, a bare flag sets it true
parsePart(part) ==
    IF startsWithBang(part) THEN [key |-> substring1(part), value |-> FALSE]
    ELSE IF includesEquals(part)
    THEN [key |-> splitEquals(part)[1], value |-> splitEquals(part)[2] = "true"]
    ELSE [key |-> part, value |-> TRUE]

\* conditions.set(key, value)
MapSet(map, key, value) ==
    [k \in DOMAIN map \cup {key} |-> IF k = key THEN value ELSE map[k]]

RECURSIVE parseParts(_, _)
parseParts(parts, conditions) ==
    IF parts = << >> THEN conditions
    ELSE LET p == parsePart(Head(parts))
         IN  parseParts(Tail(parts), MapSet(conditions, p.key, p.value))

parseWhenConditions(when) == parseParts(splitAnd(when), [k \in {} |-> TRUE])

contextsOverlap(when1, when2) ==
    IF ~Truthy(when1) /\ ~Truthy(when2) THEN TRUE
    ELSE IF ~Truthy(when1) \/ ~Truthy(when2) THEN TRUE
    ELSE LET conditions1 == parseWhenConditions(when1)
             conditions2 == parseWhenConditions(when2)
         IN  \A key \in DOMAIN conditions1 :
                ~(key \in DOMAIN conditions2 /\ conditions2[key] # conditions1[key])

\* the entries of `bindings` at the positions of S, in their order
RECURSIVE pick(_, _, _)
pick(bindings, S, j) ==
    IF j > Len(bindings) THEN << >>
    ELSE (IF j \in S THEN << bindings[j] >> ELSE << >>) \o pick(bindings, S, j + 1)

\* a mutant of groupByContext: every binding of the bucket is one group
groupAllTogether(bindings) == << bindings >>

\* a mutant of groupByContext's loop: an absorbed binding is not marked as
\* processed
RECURSIVE groupFromUnmarked(_, _, _)
groupFromUnmarked(bindings, i, processed) ==
    IF i > Len(bindings) THEN << >>
    ELSE IF i \in processed THEN groupFromUnmarked(bindings, i + 1, processed)
    ELSE LET absorbed == { j \in (i + 1)..Len(bindings) :
                             /\ j \notin processed
                             /\ contextsOverlap(bindings[i].when, bindings[j].when) }
             group == << bindings[i] >> \o pick(bindings, absorbed, 1)
         IN  << group >> \o groupFromUnmarked(bindings, i + 1, processed \cup {i})

\* the outer loop of groupByContext from position i on
RECURSIVE groupFrom(_, _, _)
groupFrom(bindings, i, processed) ==
    IF i > Len(bindings) THEN << >>
    ELSE IF i \in processed THEN groupFrom(bindings, i + 1, processed)
    ELSE LET absorbed == { j \in (i + 1)..Len(bindings) :
                             /\ j \notin processed
                             /\ contextsOverlap(bindings[i].when, bindings[j].when) }
             group == << bindings[i] >> \o pick(bindings, absorbed, 1)
         IN  << group >> \o groupFrom(bindings, i + 1, processed \cup {i} \cup absorbed)

groupByContext(bindings) == groupFrom(bindings, 1, {})

\* the first loop of detectConflicts: keyMap, in insertion order
RECURSIVE buildKeyMap(_, _)
buildKeyMap(allBindings, keyMap) ==
    IF allBindings = << >> THEN keyMap
    ELSE LET binding == Head(allBindings)
             normalizedKey == normalizeKey(binding.key)
             at == { i \in 1..Len(keyMap) : keyMap[i].key = normalizedKey }
             next == IF at = {}
                     THEN Append(keyMap, [key |-> normalizedKey, bindings |-> << binding >>])
                     ELSE [i \in 1..Len(keyMap) |->
                             IF i \in at
                             THEN [keyMap[i] EXCEPT !.bindings = Append(@, binding)]
                             ELSE keyMap[i]]
         IN  buildKeyMap(Tail(allBindings), next)

\* the conflicts pushed for the groups of one bucket
RECURSIVE conflictsOf(_)
conflictsOf(groups) ==
    IF groups = << >> THEN << >>
    ELSE LET group == Head(groups)
         IN  (IF Len(group) > 1
              THEN << [key |-> group[1].key, bindings |-> group,
                       involvesUserBinding |->
                          \E i \in 1..Len(group) : group[i].source = "user"] >>
              ELSE << >>) \o conflictsOf(Tail(groups))

RECURSIVE conflictsOfBuckets(_)
conflictsOfBuckets(keyMap) ==
    IF keyMap = << >> THEN << >>
    ELSE (IF Len(Head(keyMap).bindings) > 1
          THEN conflictsOf(groupByContext(Head(keyMap).bindings))
          ELSE << >>) \o conflictsOfBuckets(Tail(keyMap))

detectConflicts(userBindings, extensionBindings) ==
    conflictsOfBuckets(buildKeyMap(userBindings \o extensionBindings, << >>))

---------------------------------------------------------------------------
(* SpecContext: contextsOverlap applied to any two contexts *)

ContextExpressions ==
    { Absent, "", "editorTextFocus", "!editorTextFocus", "!inDebugMode",
      "editorTextFocus && !inDebugMode",
      "resourceLangId == python", "resourceLangId == javascript",
      "editorTextFocus == true", "inDebugMode == false",
      "editorTextFocus && resourceLangId == python",
      "!editorTextFocus&&resourceLangId == javascript",
      "resourceLangId == python && !inDebugMode" }

ContextsOverlap ==
    /\ last.op = "none"
    /\ last' = [op |-> "contextsOverlap", when1 |-> arg.when1, when2 |-> arg.when2,
                result |-> contextsOverlap(arg.when1, arg.when2),
                reverse |-> contextsOverlap(arg.when2, arg.when1)]
    /\ UNCHANGED <<fileVars, govVars, prevOp, taskVars, nOps, initialFile,
                   fileForm, snapshots, created, arg, host, refs>>

InitContext ==
    /\ file = << >>
    /\ InitBase
    /\ fileForm = "canonical"
    /\ snapshots = << >>
    /\ created = << >>
    /\ arg \in { [when1 |-> a, when2 |-> b] : a, b \in ContextExpressions }
    /\ host = "clone"

NextContext == ContextsOverlap

SpecContext == InitContext /\ [][NextContext]_vars

---------------------------------------------------------------------------
(* The audit view: KeybindingParser.getUserKeybindings and *)
(* AuditPanelProvider.getAuditData                         *)

\* command.startsWith('-'), on the commands of the model
isNegationCommand(command) == command \in { "-" \o c : c \in Commands }

\* the Keybinding getUserKeybindings builds from one entry of the file
UserKeybinding(key, command, when) ==
    [id |-> generateKeybindingId(key, command, when), key |-> key,
     command |-> command, when |-> when, source |-> "user",
     extensionId |-> Absent]

UserKeybindingTable ==
    [t \in (Keys \cup NewKeys) \X Commands \X Whens |->
        UserKeybinding(t[1], t[2], t[3])]

RECURSIVE getUserKeybindings(_)
getUserKeybindings(entries) ==
    IF entries = << >> THEN << >>
    ELSE LET entry == Head(entries)
             t == << entry.key, entry.command, entry.when >>
         IN  (IF isNegationCommand(entry.command) THEN << >>
              ELSE IF t \in DOMAIN UserKeybindingTable
              THEN << UserKeybindingTable[t] >>
              ELSE << UserKeybinding(entry.key, entry.command, entry.when) >>)
             \o getUserKeybindings(Tail(entries))

\* conflicts.filter(c => c.bindings.some(b => b.source === 'extension'))
involvesExtension(c) ==
    \E i \in 1..Len(c.bindings) : c.bindings[i].source = "extension"

\* a mutant of getAuditData: every extension binding goes to the detector
getAuditDataUnfiltered(f, state) ==
    LET user == getUserKeybindings(f)
        allConflicts == detectConflicts(user, getAllExtensionKeybindings)
        conflicts == SelectSeq(allConflicts, involvesExtension)
    IN  [conflicts |-> conflicts, allConflicts |-> allConflicts,
         stats |-> [conflicts |-> Len(conflicts)]]

\* getAuditData on the file and the governance state it reads; allConflicts
\* is the detector's result before the filter, which the view does not show
getAuditData(f, state) ==
    LET user == getUserKeybindings(f)
        activeExtension ==
            SelectSeq(getAllExtensionKeybindings,
                      LAMBDA kb : getStatus(state, kb.id) \notin {"deactivated", "remapped"})
        allConflicts == detectConflicts(user, activeExtension)
        conflicts == SelectSeq(allConflicts, involvesExtension)
    IN  [conflicts |-> conflicts, allConflicts |-> allConflicts,
         stats |-> [conflicts |-> Len(conflicts)]]

---------------------------------------------------------------------------
(* SpecConflict: detectConflicts applied to any lists of bindings *)

ConflictBinding(key, command, when, source) ==
    [key |-> key, command |-> command, when |-> when, source |-> source]

ConflictUserBindings ==
    { ConflictBinding(k, "foo", w, "user") :
        k \in {"ctrl+k", "Ctrl+Shift+K"},
        w \in {Absent, "editorTextFocus"} }

ConflictExtensionBindings ==
    { ConflictBinding(k, "bar", w, "extension") :
        k \in {"Ctrl+K", "shift+ctrl+k"},
        w \in {Absent, "!editorTextFocus"} }
    \cup { ConflictBinding("Ctrl + K", "baz", "editorTextFocus && !inDebugMode",
                           "extension") }

ConflictInputs ==
    { [user |-> u, extension |-> e] :
        u \in SeqsUpTo(ConflictUserBindings, MaxBindings),
        e \in SeqsUpTo(ConflictExtensionBindings, MaxBindings) }

DetectConflicts ==
    /\ last.op = "none"
    /\ last' = [op |-> "detectConflicts", user |-> arg.user,
                extension |-> arg.extension,
                keyMap |-> buildKeyMap(arg.user \o arg.extension, << >>),
                result |-> detectConflicts(arg.user, arg.extension)]
    /\ UNCHANGED <<fileVars, govVars, prevOp, taskVars, nOps, initialFile,
                   fileForm, snapshots, created, arg, host, refs>>

InitConflict ==
    /\ file = << >>
    /\ InitBase
    /\ fileForm = "canonical"
    /\ snapshots = << >>
    /\ created = << >>
    /\ arg \in ConflictInputs
    /\ host = "clone"

NextConflict == DetectConflicts

SpecConflict == InitConflict /\ [][NextConflict]_vars

---------------------------------------------------------------------------
(* SpecIdentity: identities derived of any triple, in the parser and on import *)

IdentityWhens == {Absent, "", "editorTextFocus", "!editorTextFocus"}

IdentityInputs ==
    { [key |-> k, command |-> c, when |-> w] :
        k \in Keys \cup {"ctrl+x"}, c \in Commands, w \in IdentityWhens }

Derived(op, a, id) ==
    [op |-> op, key |-> a.key, command |-> a.command, when |-> a.when, result |-> id]

\* KeybindingParser builds a Keybinding: generateKeybindingId of types/keybinding.ts
DeriveInParser(a) ==
    /\ nOps < MaxCalls
    /\ nOps' = nOps + 1
    /\ arg' = a
    /\ last' = Derived("parserId", a, generateKeybindingId(a.key, a.command, a.when))
    /\ prevOp' = last
    /\ UNCHANGED <<fileVars, govVars, taskVars, initialFile, fileForm, snapshots,
                   created, host, refs>>

\* the importSettings case builds a Keybinding of a shortcut of the document
DeriveOnImport(a) ==
    /\ nOps < MaxCalls
    /\ nOps' = nOps + 1
    /\ arg' = a
    /\ last' = Derived("importId", a,
                       AuditPanelProvider_generateKeybindingId(a.key, a.command, a.when))
    /\ prevOp' = last
    /\ UNCHANGED <<fileVars, govVars, taskVars, initialFile, fileForm, snapshots,
                   created, host, refs>>

DeriveInParserAny == \E a \in IdentityInputs : DeriveInParser(a)
DeriveOnImportAny == \E a \in IdentityInputs : DeriveOnImport(a)

InitIdentity ==
    /\ file = << >>
    /\ InitRest

NextIdentity ==
    \/ DeriveInParserAny
    \/ DeriveOnImportAny

SpecIdentity == InitIdentity /\ [][NextIdentity]_vars

---------------------------------------------------------------------------
(* The text of keybindings.json *)

\* How the text in the file is written. "canonical" is the output of
\* JSON.stringify(list, null, 2), what write() produces; "reformatted" is a
\* JSON array laid out otherwise; "commented" is an array with JSONC comments,
\* as VS Code creates the file; "object" is valid JSON that is not an array.
FileForms == {"canonical", "reformatted", "commented", "object"}

\* the raw text: its form and the entries parseKeybindings finds in it
RawContent(form, entries) == [form |-> form, entries |-> entries]

\* KeybindingsFileService.readRaw()
readRaw(form, entries) == RawContent(form, entries)

\* JSON.parse(text): comments are a SyntaxError
JSONparse(content) ==
    CASE content.form \in {"canonical", "reformatted"} ->
            [threw |-> FALSE, isArray |-> TRUE, value |-> content.entries]
      [] content.form = "object" ->
            [threw |-> FALSE, isArray |-> FALSE, value |-> << >>]
      [] content.form = "commented" ->
            [threw |-> TRUE, isArray |-> FALSE, value |-> << >>]

\* KeybindingsFileService.write(keybindings): the text it leaves in the file
write(keybindings) == RawContent("canonical", keybindings)

---------------------------------------------------------------------------
(* SnapshotService, each method as a function of the stored array *)

MAX_SNAPSHOTS == 10

BaseSnapshotName == "Base Snapshot"

\* names typed into the input boxes of the snapshot commands
SnapshotNames == {"work", BaseSnapshotName}

\* Snapshot. generateSnapshotId() and Date.now() are modelled by the number
\* of the creation: ids are unique and later snapshots have later times.
Snapshot(n, name, keybindingsContent, governanceState) ==
    [id |-> n, name |-> name, createdAt |-> n,
     keybindingsContent |-> keybindingsContent,
     governanceState |-> governanceState]

\* insertion into an array sorted by (a, b) => b.createdAt - a.createdAt
RECURSIVE insertByCreatedAt(_, _)
insertByCreatedAt(sorted, s) ==
    IF sorted = << >> THEN << s >>
    ELSE IF Head(sorted).createdAt < s.createdAt THEN << s >> \o sorted
    ELSE << Head(sorted) >> \o insertByCreatedAt(Tail(sorted), s)

\* getSnapshots(): the stored array, newest first
RECURSIVE getSnapshots(_)
getSnapshots(stored) ==
    IF stored = << >> THEN << >>
    ELSE insertByCreatedAt(getSnapshots(SubSeq(stored, 1, Len(stored) - 1)),
                           stored[Len(stored)])

\* snapshots.find(pred) by the positions that satisfy pred: << the entry >>,
\* or << >> for undefined
find(list, hits) == IF hits = {} THEN << >> ELSE << list[findIndex(hits)] >>

NamedBase(list) == { i \in 1..Len(list) : list[i].name = BaseSnapshotName }

WithId(list, snapshotId) == { i \in 1..Len(list) : list[i].id = snapshotId }

\* a mutant of saveSnapshot: the bound does not make room for the base
saveSnapshotNoRoom(stored, snapshot) ==
    LET sorted == getSnapshots(stored)
        baseIndex == findIndex(NamedBase(sorted))
        rest == IF baseIndex # 0 THEN splice(sorted, baseIndex) ELSE sorted
        unshifted == << snapshot >> \o rest
        sliced == IF Len(unshifted) > MAX_SNAPSHOTS
                  THEN SubSeq(unshifted, 1, MAX_SNAPSHOTS)
                  ELSE unshifted
    IN  IF baseIndex # 0 THEN Append(sliced, sorted[baseIndex]) ELSE sliced

\* saveSnapshot(snapshot): the array it stores
saveSnapshot(stored, snapshot) ==
    LET sorted == getSnapshots(stored)
        baseIndex == findIndex(NamedBase(sorted))
        rest == IF baseIndex # 0 THEN splice(sorted, baseIndex) ELSE sorted
        unshifted == << snapshot >> \o rest
        limit == MAX_SNAPSHOTS - (IF baseIndex # 0 THEN 1 ELSE 0)
        sliced == IF Len(unshifted) > limit
                  THEN SubSeq(unshifted, 1, limit)
                  ELSE unshifted
    IN  IF baseIndex # 0 THEN Append(sliced, sorted[baseIndex]) ELSE sliced

\* createSnapshot(name, governanceState) as the n-th creation, on the text
\* readRaw() returned: the snapshot and the array stored
createSnapshot(stored, n, name, governanceState, content) ==
    LET snapshot == Snapshot(n, name, content, governanceState)
    IN  [snapshot |-> snapshot, stored |-> saveSnapshot(stored, snapshot),
         isNew |-> TRUE]

\* a mutant of createBaseSnapshot: it does not look for an existing one
createBaseSnapshotAnew(stored, n, governanceState, content) ==
    createSnapshot(stored, n, BaseSnapshotName, governanceState, content)

\* createBaseSnapshot(governanceState)
createBaseSnapshot(stored, n, governanceState, content) ==
    LET existingSnapshots == getSnapshots(stored)
        baseSnapshot == find(existingSnapshots, NamedBase(existingSnapshots))
    IN  IF baseSnapshot # << >>
        THEN [snapshot |-> baseSnapshot[1], stored |-> stored, isNew |-> FALSE]
        ELSE createSnapshot(stored, n, BaseSnapshotName, governanceState, content)

\* restoreSnapshot(snapshotId): whether JSON.parse threw, the text written
\* to the file (<< >> when nothing is written) and the state returned
\* (<< >> for undefined and when it threw)
restoreSnapshot(stored, snapshotId) ==
    LET sorted == getSnapshots(stored)
        snapshot == find(sorted, WithId(sorted, snapshotId))
    IN  IF snapshot = << >>
        THEN [threw |-> FALSE, written |-> << >>, result |-> << >>]
        ELSE LET parsed == JSONparse(snapshot[1].keybindingsContent)
             IN  IF parsed.threw
                 THEN [threw |-> TRUE, written |-> << >>, result |-> << >>]
                 ELSE [threw |-> FALSE,
                       written |-> << write(IF parsed.isArray THEN parsed.value
                                                              ELSE << >>) >>,
                       result |-> << snapshot[1].governanceState >>]

\* a mutant of deleteSnapshot: index -1 is not told apart, and splice(-1, 1)
\* removes the last entry
deleteSnapshotUnguarded(stored, snapshotId) ==
    LET sorted == getSnapshots(stored)
        index == findIndex(WithId(sorted, snapshotId))
    IN  IF sorted = << >>
        THEN [stored |-> stored, result |-> TRUE]
        ELSE [stored |-> splice(sorted, IF index = 0 THEN Len(sorted) ELSE index),
              result |-> TRUE]

\* deleteSnapshot(snapshotId): the array stored and the value returned
deleteSnapshot(stored, snapshotId) ==
    LET sorted == getSnapshots(stored)
        index == findIndex(WithId(sorted, snapshotId))
    IN  IF index = 0
        THEN [stored |-> stored, result |-> FALSE]
        ELSE [stored |-> splice(sorted, index), result |-> TRUE]

\* renameSnapshot(snapshotId, newName)
renameSnapshot(stored, snapshotId, newName) ==
    LET sorted == getSnapshots(stored)
        index == findIndex(WithId(sorted, snapshotId))
    IN  IF index = 0
        THEN [stored |-> stored, result |-> FALSE]
        ELSE [stored |-> [sorted EXCEPT ![index].name = newName], result |-> TRUE]

---------------------------------------------------------------------------
(* Activation and the snapshot commands *)

\* GovernanceService.isFirstRun()
isFirstRun(state) == ~state.initialAuditComplete

\* the answers to a modal confirmation: its one button, Cancel, and the
\* dialog closed
Answers == {"confirm", "cancel", Absent}

\* confirmDestructiveAction(message, confirmLabel): a modal warning, true
\* when the confirming button is chosen
confirmDestructiveAction(answer) == answer = "confirm"

\* what a snapshot operation found and what it did; renamedOrDeleted is
\* whether a rename or a delete has been asked for so far; answer is the
\* answer to the confirmation of a command that asked for one
SnapRecord(op, id, name, result, threw) ==
    [op |-> op, id |-> id, name |-> name, result |-> result, threw |-> threw,
     answer |-> "unasked",
     before |-> [file |-> file, fileForm |-> fileForm, snapshots |-> snapshots,
                 mem |-> mem, persisted |-> persisted],
     renamedOrDeleted |-> \/ op \in {"rename", "delete"}
                          \/ (last.op # "none" /\ last.renamedOrDeleted)]

Answered(record, answer) == [record EXCEPT !.answer = answer]

\* ghost: a creation, with the method that asked for it and the text and the
\* state the program had when it was called
Creation(snapshot, by) ==
    [snapshot |-> snapshot, by |-> by,
     content |-> RawContent(fileForm, file), state |-> mem]

\* saveState(): the state is stored and the observers are told
Saved(state) ==
    /\ persisted' = state
    /\ fired' = [seen |-> TRUE, state |-> state, stored |-> state]

\* the text `content` is put in the file
Written(content) ==
    /\ file' = content.entries
    /\ fileForm' = content.form
    /\ everWritten' = everWritten \cup
          (IF content.entries # file THEN EntriesOf(content.entries) ELSE {})

\* globalState.update(SNAPSHOTS_KEY, snapshots), the n-th snapshot being new
\* in the array when n > 0: a host that copies keeps objects of its own, none
\* of them this.state.decisions; the snapshot createSnapshot built holds
\* this.state.decisions itself, `{ ...governanceState }` copying one level.
updateSnapshots(r, n) ==
    LET of == IF n > 0 THEN Append(r.of, r.live) ELSE r.of
    IN  IF host = "clone"
        THEN [live |-> 0, of |-> [i \in 1..Len(of) |-> i]]
        ELSE [live |-> r.live, of |-> of]

\* activate() on a first run: handleFirstRun. The welcome message waits for
\* an answer; `interrupted` is the window closed before it is given, so that
\* markInitialAuditComplete never runs. On a later run activate() goes to
\* extensionWatcher.initialCheck(), which touches none of the variables.
Activate(interrupted) ==
    /\ isFirstRun(mem)
    /\ LET r == createBaseSnapshot(snapshots, Len(created) + 1, mem,
                                   readRaw(fileForm, file))
           state == IF interrupted THEN mem
                    ELSE [mem EXCEPT !.initialAuditComplete = TRUE]
       IN  /\ snapshots' = r.stored
           /\ created' = IF r.isNew
                         THEN Append(created, Creation(r.snapshot, "createBaseSnapshot"))
                         ELSE created
           /\ refs' = IF r.isNew THEN updateSnapshots(refs, r.snapshot.id) ELSE refs
           /\ mem' = state
           /\ Saved(state)
           /\ last' = SnapRecord("activate", r.snapshot.id, BaseSnapshotName,
                                 << r.snapshot >>, FALSE)
    /\ UNCHANGED <<fileVars, fileForm, prevOp, taskVars, initialFile, arg, host>>

\* The commands are registered by activate(), and a first activation on a
\* first run has created a snapshot before any command can be chosen.
Activated == created # << >>

\* the snapshots the quick pick offers
Offered == { snapshots[i].id : i \in 1..Len(snapshots) }

\* The quick pick lists what getSnapshots() returned before it was shown; by
\* the time an item is picked and the choice confirmed, the snapshot may have
\* left the history. The ids a command may be run with are those of every
\* snapshot that has been listed.
Pickable == { created[i].snapshot.id : i \in 1..Len(created) }

\* commands/snapshot.ts createSnapshot, with the name typed
createSnapshotCommand(name) ==
    /\ Activated
    /\ LET r == createSnapshot(snapshots, Len(created) + 1, name, mem,
                               readRaw(fileForm, file))
       IN  /\ snapshots' = r.stored
           /\ created' = Append(created, Creation(r.snapshot, "createSnapshot"))
           /\ refs' = updateSnapshots(refs, r.snapshot.id)
           /\ last' = SnapRecord("create", r.snapshot.id, name, << r.snapshot >>, FALSE)
    /\ UNCHANGED <<fileVars, fileForm, govVars, prevOp, taskVars, initialFile, arg,
                   host>>

\* commands/snapshot.ts restoreSnapshot, a snapshot picked and the
\* confirmation answered: the service's restore and then setState of what it
\* returned. An exception of JSON.parse leaves the command at the await.
restoreSnapshotCommand(selectedId, answer) ==
    /\ Activated
    /\ selectedId \in Pickable
    /\ IF ~confirmDestructiveAction(answer)
       THEN /\ last' = Answered(SnapRecord("restoreCommand", selectedId, Absent,
                                           << >>, FALSE), answer)
            /\ UNCHANGED <<fileVars, fileForm, govVars, refs>>
       ELSE LET r == restoreSnapshot(snapshots, selectedId)
            IN  /\ IF r.written # << >> THEN Written(r.written[1])
                   ELSE UNCHANGED <<fileVars, fileForm>>
                /\ IF r.result # << >>
                   THEN /\ mem' = r.result[1]
                        /\ Saved(r.result[1])
                        /\ refs' = [refs EXCEPT !.live = refs.of[selectedId]]
                   ELSE UNCHANGED <<govVars, refs>>
                /\ last' = Answered(SnapRecord("restoreCommand", selectedId, Absent,
                                               r.result, r.threw), answer)
    /\ UNCHANGED <<snapshots, created, prevOp, taskVars, initialFile, arg, host>>

\* showSnapshots, case 'restore', the confirmation answered: the service's
\* restore alone
showSnapshotsRestore(selectedId, answer) ==
    /\ Activated
    /\ selectedId \in Pickable
    /\ IF ~confirmDestructiveAction(answer)
       THEN /\ last' = Answered(SnapRecord("restore", selectedId, Absent, << >>, FALSE),
                                answer)
            /\ UNCHANGED <<fileVars, fileForm>>
       ELSE LET r == restoreSnapshot(snapshots, selectedId)
            IN  /\ IF r.written # << >> THEN Written(r.written[1])
                   ELSE UNCHANGED <<fileVars, fileForm>>
                /\ last' = Answered(SnapRecord("restore", selectedId, Absent,
                                               r.result, r.threw), answer)
    /\ UNCHANGED <<govVars, snapshots, created, prevOp, taskVars, initialFile, arg,
                   host, refs>>

\* the label of the item picked: the name the snapshot has, or the name it
\* was created with once it has left the history
LabelOf(selectedId) ==
    IF selectedId \in Offered
    THEN LET at == CHOOSE i \in 1..Len(snapshots) : snapshots[i].id = selectedId
         IN  snapshots[at].name
    ELSE LET at == CHOOSE i \in 1..Len(created) : created[i].snapshot.id = selectedId
         IN  created[at].snapshot.name

\* a mutant of showSnapshotsDelete: the snapshot is deleted whatever the
\* answer
showSnapshotsDeleteUnasked(selectedId, answer) ==
    /\ Activated
    /\ selectedId \in Pickable
    /\ LET r == deleteSnapshot(snapshots, selectedId)
       IN  /\ snapshots' = r.stored
           /\ refs' = IF r.result THEN updateSnapshots(refs, 0) ELSE refs
           /\ last' = Answered(SnapRecord("delete", selectedId, LabelOf(selectedId),
                                          << r.result >>, FALSE), answer)
    /\ UNCHANGED <<fileVars, fileForm, govVars, created, prevOp, taskVars,
                   initialFile, arg, host>>

\* showSnapshots, case 'delete': the item labelled as the Base snapshot is
\* refused before any question; another one is deleted when the
\* confirmation is given
showSnapshotsDelete(selectedId, answer) ==
    /\ Activated
    /\ selectedId \in Pickable
    /\ IF LabelOf(selectedId) = BaseSnapshotName
       THEN /\ last' = SnapRecord("delete", selectedId, LabelOf(selectedId),
                                  << >>, FALSE)
            /\ UNCHANGED <<snapshots, refs>>
       ELSE IF ~confirmDestructiveAction(answer)
       THEN /\ last' = Answered(SnapRecord("delete", selectedId, LabelOf(selectedId),
                                           << >>, FALSE), answer)
            /\ UNCHANGED <<snapshots, refs>>
       ELSE LET r == deleteSnapshot(snapshots, selectedId)
            IN  /\ snapshots' = r.stored
                /\ refs' = IF r.result THEN updateSnapshots(refs, 0) ELSE refs
                /\ last' = Answered(SnapRecord("delete", selectedId, LabelOf(selectedId),
                                               << r.result >>, FALSE), answer)
    /\ UNCHANGED <<fileVars, fileForm, govVars, created, prevOp, taskVars,
                   initialFile, arg, host>>

\* showSnapshots, case 'rename', with the new name typed
showSnapshotsRename(selectedId, newName) ==
    /\ Activated
    /\ selectedId \in Pickable
    /\ LET r == renameSnapshot(snapshots, selectedId, newName)
       IN  /\ snapshots' = r.stored
           /\ refs' = IF r.result THEN updateSnapshots(refs, 0) ELSE refs
           /\ last' = SnapRecord("rename", selectedId, newName, << r.result >>, FALSE)
    /\ UNCHANGED <<fileVars, fileForm, govVars, created, prevOp, taskVars,
                   initialFile, arg, host>>

\* texts of keybindings.json the user may leave in the file: the file as
\* VS Code creates it (a comment and an empty array), and one binding written
\* with write()'s layout, with another layout, and inside an object
UserTexts ==
    { RawContent("commented", << >>),
      RawContent("canonical", << Entry("ctrl+j", "ext.a", Absent, "user") >>),
      RawContent("reformatted", << Entry("ctrl+j", "ext.a", Absent, "user") >>),
      RawContent("object", << >>) }

\* the user edits keybindings.json by hand
UserEdit(content) ==
    /\ RawContent(fileForm, file) # content
    /\ file' = content.entries
    /\ fileForm' = content.form
    /\ last' = SnapRecord("edit", Absent, Absent, << >>, FALSE)
    /\ UNCHANGED <<everWritten, govVars, snapshots, created, prevOp, taskVars,
                   initialFile, arg, host, refs>>

---------------------------------------------------------------------------
(* SpecHistory: activations and creations, as many as the bound of the *)
(* history takes to act                                                *)

\* snapshots created in one run of SpecHistory
MaxCreates == 11

HistoryActivate ==
    \E interrupted \in BOOLEAN :
        /\ Len(created) < MaxCreates
        /\ Activate(interrupted)
        /\ UNCHANGED nOps

HistoryCreate ==
    \E name \in SnapshotNames :
        /\ Len(created) < MaxCreates
        /\ createSnapshotCommand(name)
        /\ UNCHANGED nOps

\* the run starts on the file as VS Code creates it
InitHistory ==
    /\ file = << >>
    /\ fileForm = "commented"
    /\ InitBase
    /\ snapshots = << >>
    /\ created = << >>
    /\ arg = Absent
    /\ host = "clone"

NextHistory ==
    \/ HistoryActivate
    \/ HistoryCreate

SpecHistory == InitHistory /\ [][NextHistory]_vars

---------------------------------------------------------------------------
(* SpecSnapshotOps: activations, hand edits and the snapshot commands in *)
(* any order                                                             *)

\* operations of one run of SpecSnapshotOps
MaxSnapOps == 4

Counted == nOps < MaxSnapOps /\ nOps' = nOps + 1

OpsActivate == \E interrupted \in BOOLEAN : Counted /\ Activate(interrupted)
OpsCreate == \E name \in SnapshotNames : Counted /\ createSnapshotCommand(name)
OpsRestoreCommand ==
    \E id \in Pickable : Counted /\ restoreSnapshotCommand(id, "confirm")
OpsRestore == \E id \in Pickable : Counted /\ showSnapshotsRestore(id, "confirm")
OpsDelete == \E id \in Pickable : Counted /\ showSnapshotsDelete(id, "confirm")
OpsRename ==
    \E id \in Pickable, newName \in SnapshotNames :
        Counted /\ showSnapshotsRename(id, newName)
OpsUserEdit == \E content \in UserTexts : Counted /\ UserEdit(content)

NextSnapshotOps ==
    \/ OpsActivate
    \/ OpsCreate
    \/ OpsRestoreCommand
    \/ OpsRestore
    \/ OpsDelete
    \/ OpsRename
    \/ OpsUserEdit

InitSnapshotOps ==
    /\ \E content \in UserTexts :
          file = content.entries /\ fileForm = content.form
    /\ InitBase
    /\ snapshots = << >>
    /\ created = << >>
    /\ arg = Absent
    /\ host = "clone"

SpecSnapshotOps == InitSnapshotOps /\ [][NextSnapshotOps]_vars

---------------------------------------------------------------------------
(* Claims about the file mutation protocol (checked under SpecFile) *)

\* how many entries of `list` satisfy P
CountWhere(list, P(_)) == Cardinality({ i \in 1..Len(list) : P(list[i]) })

\* `list` without its i-th entry
Without(list, i) == SubSeq(list, 1, i - 1) \o SubSeq(list, i + 1, Len(list))

\* the context a written entry carries for a requested context
WrittenWhen(when) == IF when = Absent \/ when = "" THEN Absent ELSE when

\* C3: after remap(originalKey, newKey, command, context) the list holds
\* exactly one entry with command "-"+command, whose key is originalKey, and
\* exactly one entry with command `command`, whose key is newKey; they are the
\* last two entries, in that order, after the prior entries of other commands,
\* which are untouched.  (A second remap of the same command is one case.)
C3_RemapLeavesOnePair ==
    last.op = "remap" =>
        LET n == Len(file)
            neg == "-" \o last.command
        IN  /\ n >= 2
            /\ CountWhere(file, LAMBDA e : e.command = neg) = 1
            /\ CountWhere(file, LAMBDA e : e.command = last.command) = 1
            /\ file[n - 1].command = neg /\ file[n - 1].key = last.key
            /\ file[n].command = last.command /\ file[n].key = last.newKey
            /\ SubSeq(file, 1, n - 2) =
                 SelectSeq(last.before,
                           LAMBDA e : e.command \notin {neg, last.command})

\* a second remap of a command, on a list that held entries of it
C3_Witness ==
    /\ last.op = "remap" /\ prevOp.op = "remap"
    /\ last.command = prevOp.command
    /\ last.key = prevOp.key
    /\ \E i \in 1..Len(prevOp.before) : prevOp.before[i].command = last.command
    /\ Len(file) > 2

\* C4: deactivate(key, command, context) leaves the prior list, every entry
\* unchanged and in its order, followed by the one entry
\* {key, "-"+command, context only when non-empty}.
C4_DeactivateAppendsOne ==
    last.op = "deactivate" =>
        /\ Len(file) = Len(last.before) + 1
        /\ SubSeq(file, 1, Len(last.before)) = last.before
        /\ Plain(file[Len(file)]) =
             [key |-> last.key, command |-> "-" \o last.command,
              when |-> WrittenWhen(last.when)]

C4_Witness ==
    /\ last.op = "deactivate"
    /\ Len(last.before) >= 2
    /\ last.when # Absent

\* C5: deactivate followed by restoreDeactivation with the identical (key,
\* command, context) reports success and leaves the list equal to the list
\* before the deactivate (same entries, same order), whatever that list held.
C5_RoundTrip ==
    ( /\ last.op = "restore" /\ prevOp.op = "deactivate"
      /\ last.key = prevOp.key /\ last.command = prevOp.command
      /\ last.when = prevOp.when )
    => /\ last.result
       /\ PlainList(file) = PlainList(prevOp.before)

\* C6: restoreDeactivation(key, command, context) removes exactly one entry, a
\* negation entry whose key, command and context all match (an absent context
\* matching only an entry without one), and returns true; when no entry
\* matches it returns false and the file is not written.
C6_Matches(e) ==
    /\ e.key = last.key
    /\ e.command = "-" \o last.command
    /\ e.when = WrittenWhen(last.when)

C6_RestoreRemovesOneMatch ==
    last.op = "restore" =>
        IF \E i \in 1..Len(last.before) : C6_Matches(last.before[i])
        THEN /\ last.result /\ last.wrote
             /\ \E i \in 1..Len(last.before) :
                    /\ C6_Matches(last.before[i])
                    /\ file = Without(last.before, i)
        ELSE /\ ~last.result /\ ~last.wrote
             /\ file = last.before

\* a restore without a context that succeeds on a list which also holds the
\* same negation with a context
C6_Witness ==
    /\ last.op = "restore" /\ last.result /\ last.when = Absent
    /\ \E i \in 1..Len(last.before) :
          /\ last.before[i].key = last.key
          /\ last.before[i].command = "-" \o last.command
          /\ last.before[i].when # Absent

\* a restore that finds nothing and writes nothing, on a list holding the
\* negation under another context
C6_WitnessNotFound ==
    /\ last.op = "restore" /\ ~last.result
    /\ \E i \in 1..Len(last.before) :
          /\ last.before[i].key = last.key
          /\ last.before[i].command = "-" \o last.command

---------------------------------------------------------------------------
(* Claims about the governance actions (checked under Spec) *)

\* C1: no governance action removes or changes an entry of keybindings.json
\* that the user wrote: every entry of the file the user had before the first
\* action is still an entry of the file, with its key, command and context.
C1_UserEntriesKept ==
    \A i \in 1..Len(initialFile) :
        \E j \in 1..Len(file) : Plain(file[j]) = Plain(initialFile[i])

\* the binding a decision is about, by its id
BindingOf(id) == { kb \in Bindings : kb.id = id }

C9_Holds(state) ==
    \A id \in DOMAIN state.decisions :
        LET d == state.decisions[id]
        IN  /\ d.status = "remapped"
                <=> (d.originalKey # Absent /\ d.remappedKey # Absent)
            /\ d.status = "remapped" =>
                  \A kb \in BindingOf(id) : d.originalKey = kb.key

\* C9: a decision has status remapped exactly when it holds both originalKey
\* and remappedKey, and its originalKey is then the key of the binding it was
\* taken for; in the live state and in the persisted one.
C9_RemappedIffKeys == C9_Holds(mem) /\ C9_Holds(persisted)

\* a binding remapped, next to one whose remap was undone (its decision is
\* back to pending and is still recorded)
C9_Witness ==
    /\ \E id \in DOMAIN mem.decisions :
          /\ mem.decisions[id].status = "remapped"
          /\ BindingOf(id) # {}
    /\ \E id \in DOMAIN mem.decisions : mem.decisions[id].status = "pending"
    /\ last.op = "restoreRemap"

\* C10: getStatus of an id that has no decision returns pending and leaves
\* the state as it was: no decision is created, nothing is persisted, no
\* observer is notified.
C10_DefaultStatus ==
    (last.op = "getStatus" /\ last.id \notin DOMAIN last.before.mem.decisions) =>
        /\ last.result = "pending"
        /\ mem = last.before.mem
        /\ last.id \notin DOMAIN mem.decisions
        /\ persisted = last.before.persisted
        /\ fired = last.before.fired

\* the status of an id of no installed binding, asked once decisions exist
C10_Witness ==
    /\ last.op = "getStatus"
    /\ last.id \notin { kb.id : kb \in Bindings }
    /\ last.id \notin DOMAIN last.before.mem.decisions
    /\ DOMAIN mem.decisions # {}

---------------------------------------------------------------------------
(* Claims about handlers in flight together (checked under SpecConc) *)

NegationOf(kb) == Entry(kb.key, "-" \o kb.command, WrittenWhen(kb.when), "harmonia")

HasWritten(i) == tasks[i].pc > 2

\* C2: file-mutating operations are serialized, so no update is lost: once
\* the deactivations in flight together have all written, the file holds the
\* negation entry of each of them.
C2_NoLostUpdate ==
    ( /\ ~crashed
      /\ \A i \in DOMAIN tasks : tasks[i].op = "deactivate" /\ HasWritten(i) )
    => \A i \in DOMAIN tasks : NegationOf(tasks[i].kb) \in EntriesOf(file)

\* the entries applyDecision writes for the decision d about binding kb
EntriesFor(kb, d) ==
    IF d.status = "deactivated" THEN { NegationOf(kb) }
    ELSE IF d.status = "remapped"
    THEN { NegationOf(kb),
           Entry(d.remappedKey, kb.command, WrittenWhen(kb.when), "harmonia") }
    ELSE {}

C7_Holds(state) ==
    \A kb \in ConcBindings :
        kb.id \in DOMAIN state.decisions =>
            EntriesFor(kb, state.decisions[kb.id]) \subseteq everWritten

\* C7: applyDecision writes the file before it records the decision: in every
\* state, also the one a crash between the two halves leaves, a decision
\* deactivated or remapped, live or persisted, is about a binding whose
\* entries a write has put in the file.
C7_FileNeverBehind == C7_Holds(mem) /\ C7_Holds(persisted)

\* a crash between the two halves: the file is written, the decision is not
\* recorded, while another binding's decision is persisted
C7_Witness ==
    /\ crashed
    /\ \E i \in DOMAIN tasks :
          /\ tasks[i].op \in {"deactivate", "remap"}
          /\ tasks[i].pc = 3
          /\ NegationOf(tasks[i].kb) \in EntriesOf(file)
          /\ tasks[i].kb.id \notin DOMAIN persisted.decisions
    /\ \E kb \in ConcBindings :
          /\ kb.id \in DOMAIN persisted.decisions
          /\ persisted.decisions[kb.id].status \in {"deactivated", "remapped"}

\* C8: a mutation persists the state and then notifies: at every
\* notification the state handed to the observer is the persisted state.
C8_ObserverSeesPersisted == fired.seen => fired.state = fired.stored

---------------------------------------------------------------------------
(* Claims about identities (checked under SpecIdentity) *)

\* the context a triple carries, an absent one being the empty one
ContextOf(r) == IF r.when = Absent THEN "" ELSE r.when

\* C15: identity is a function of (key, command, context): two derivations
\* from equal triples, an absent context taken equal to an empty one, yield
\* the same identity, wherever the program derives them (parser or import).
C15_SameIdentity ==
    ( /\ last.op \in {"parserId", "importId"}
      /\ prevOp.op \in {"parserId", "importId"}
      /\ last.key = prevOp.key /\ last.command = prevOp.command
      /\ ContextOf(last) = ContextOf(prevOp) )
    => last.result = prevOp.result

---------------------------------------------------------------------------
(* Claims about conflict detection (checked under SpecConflict) *)

\* the bindings given to detectConflicts, user bindings first
Detected == last.user \o last.extension

InGroup(binding, conflict) ==
    \E i \in 1..Len(conflict.bindings) : conflict.bindings[i] = binding

\* two contexts that give one flag contradictory values
Contradictory(when1, when2) ==
    /\ Truthy(when1) /\ Truthy(when2)
    /\ \E flag \in DOMAIN parseWhenConditions(when1) \cap DOMAIN parseWhenConditions(when2) :
          parseWhenConditions(when1)[flag] # parseWhenConditions(when2)[flag]

\* C11: for one user binding and one extension binding with equal normalized
\* keys, detectConflicts emits exactly one group, holding both, with
\* involvesUserBinding true, when neither has a context, and no group when
\* their contexts give a shared flag contradictory values.
C11_UserAgainstExtension ==
    ( /\ last.op = "detectConflicts"
      /\ Len(last.user) = 1 /\ Len(last.extension) = 1
      /\ normalizeKey(last.user[1].key) = normalizeKey(last.extension[1].key) )
    => LET u == last.user[1]
           e == last.extension[1]
       IN  /\ (u.when = Absent /\ e.when = Absent) =>
                  /\ Len(last.result) = 1
                  /\ InGroup(u, last.result[1]) /\ InGroup(e, last.result[1])
                  /\ last.result[1].involvesUserBinding
           /\ Contradictory(u.when, e.when) => last.result = << >>

\* the pair with contexts "editorTextFocus" and "!editorTextFocus"
C11_Witness ==
    /\ last.op = "detectConflicts"
    /\ Len(last.user) = 1 /\ Len(last.extension) = 1
    /\ normalizeKey(last.user[1].key) = normalizeKey(last.extension[1].key)
    /\ last.user[1].when = "editorTextFocus"
    /\ last.extension[1].when = "!editorTextFocus"
    /\ last.result = << >>

\* C12: conflict detection never under-reports: every binding that shares its
\* normalized key with another binding whose context overlaps its own is in
\* at least one emitted group.
C12_NeverUnderReports ==
    last.op = "detectConflicts" =>
        \A i, j \in 1..Len(Detected) :
            ( /\ i # j
              /\ normalizeKey(Detected[i].key) = normalizeKey(Detected[j].key)
              /\ contextsOverlap(Detected[i].when, Detected[j].when) )
            => \E g \in 1..Len(last.result) : InGroup(Detected[i], last.result[g])

\* how often the part t occurs in the lower-case key
Occurrences(key, t) ==
    Cardinality({ i \in 1..Len(split(toLowerCase(key))) : split(toLowerCase(key))[i] = t })

\* two keys that differ only in letter case or in the order of their parts
SameUpToCaseAndOrder(key1, key2) ==
    \A t \in { split(toLowerCase(key1))[i] : i \in 1..Len(split(toLowerCase(key1))) }
         \cup { split(toLowerCase(key2))[i] : i \in 1..Len(split(toLowerCase(key2))) } :
        Occurrences(key1, t) = Occurrences(key2, t)

\* C14: normalizeKey is idempotent, and keys that differ only in letter case
\* or in the order of their "+"-separated parts have one normal form and lie
\* in one bucket of detectConflicts.
C14_NormalizeKey ==
    last.op = "detectConflicts" =>
        \A i, j \in 1..Len(Detected) :
            /\ normalizeKey(normalizeKey(Detected[i].key)) = normalizeKey(Detected[i].key)
            /\ SameUpToCaseAndOrder(Detected[i].key, Detected[j].key) =>
                  /\ normalizeKey(Detected[i].key) = normalizeKey(Detected[j].key)
                  /\ \E b \in 1..Len(last.keyMap) :
                        /\ \E x \in 1..Len(last.keyMap[b].bindings) :
                              last.keyMap[b].bindings[x] = Detected[i]
                        /\ \E y \in 1..Len(last.keyMap[b].bindings) :
                              last.keyMap[b].bindings[y] = Detected[j]

\* "Ctrl+Shift+K" and "shift+ctrl+k" given together
C14_Witness ==
    /\ last.op = "detectConflicts"
    /\ \E i, j \in 1..Len(Detected) :
          /\ Detected[i].key = "Ctrl+Shift+K"
          /\ Detected[j].key = "shift+ctrl+k"
    /\ \E b \in 1..Len(last.keyMap) :
          /\ last.keyMap[b].key = "ctrl+k+shift"
          /\ Len(last.keyMap[b].bindings) >= 2

---------------------------------------------------------------------------
(* Claims about the audit view (checked under Spec) *)

\* C13: in the audit view computed in any state, no surfaced conflict group
\* holds an extension binding whose status is deactivated or remapped, and
\* every surfaced group holds at least one binding of source extension.
C13_SurfacedGroups ==
    LET conflicts == getAuditData(file, mem).conflicts
    IN  \A i \in 1..Len(conflicts) :
           LET bindings == conflicts[i].bindings
           IN  /\ \A j \in 1..Len(bindings) :
                     bindings[j].source = "extension" =>
                        getStatus(mem, bindings[j].id) \notin {"deactivated", "remapped"}
               /\ \E j \in 1..Len(bindings) : bindings[j].source = "extension"

\* a view that shows a group, computed while the detector, given every
\* extension binding, would report a group with a deactivated or remapped one
C13_Witness ==
    LET data == getAuditData(file, mem)
        unfiltered == detectConflicts(getUserKeybindings(file),
                                      getAllExtensionKeybindings)
    IN  /\ data.conflicts # << >>
        /\ \E i \in 1..Len(unfiltered) :
              \E j \in 1..Len(unfiltered[i].bindings) :
                 LET kb == unfiltered[i].bindings[j]
                 IN  /\ kb.source = "extension"
                     /\ getStatus(mem, kb.id) \in {"deactivated", "remapped"}

---------------------------------------------------------------------------
(* Claims about the history of snapshots (checked under SpecHistory) *)

StoredIds == { snapshots[i].id : i \in 1..Len(snapshots) }

\* the creations createBaseSnapshot asked for: the Base snapshots
BaseCreations == { i \in 1..Len(created) : created[i].by = "createBaseSnapshot" }

BaseIds == { created[i].snapshot.id : i \in BaseCreations }

\* the creations the create command asked for
NamedCreations == { i \in 1..Len(created) : created[i].by = "createSnapshot" }

\* ids of the k latest creations of the create command
MostRecent(k) ==
    { created[i].snapshot.id :
        i \in { j \in NamedCreations :
                  Cardinality({ l \in NamedCreations : l > j }) < k } }

\* the snapshot of the i-th creation is stored as it was created
StoredAsCreated(i) ==
    \E j \in 1..Len(snapshots) : snapshots[j] = created[i].snapshot

\* Base is in the history and no snapshot of the create command has its name
BaseAlone ==
    /\ BaseCreations # {}
    /\ \A i \in BaseCreations : StoredAsCreated(i)
    /\ \A i \in NamedCreations : created[i].snapshot.name # BaseSnapshotName

C17_BaseNeverEvicted ==
    /\ \A i \in BaseCreations :
          \E j \in 1..Len(snapshots) :
             /\ snapshots[j].id = created[i].snapshot.id
             /\ snapshots[j].keybindingsContent = created[i].content
    /\ Cardinality(StoredIds \ BaseIds) <= 10

---------------------------------------------------------------------------
(* Claims about the snapshot operations (checked under SpecSnapshotOps) *)

\* the snapshot an operation was aimed at, in the history it found
Target == { last.before.snapshots[i] :
              i \in WithId(last.before.snapshots, last.id) }

\* C18: createBaseSnapshot on a history that has a Base returns it, adds no
\* snapshot and changes neither the history nor the file; and as long as no
\* rename or delete was asked for and the create command did not use Base's
\* name, any number of first-run activations leave one Base, which is stored
\* with the text and the state the program had at the first of them.
C18_CreateBaseIdempotent ==
    /\ (last.op = "activate" /\ NamedBase(last.before.snapshots) # {}) =>
          /\ snapshots = last.before.snapshots
          /\ last.result = find(getSnapshots(last.before.snapshots),
                                NamedBase(getSnapshots(last.before.snapshots)))
          /\ file = last.before.file
          /\ fileForm = last.before.fileForm
    /\ (/\ last.op # "none"
        /\ ~last.renamedOrDeleted
        /\ \A i \in NamedCreations : created[i].snapshot.name # BaseSnapshotName) =>
          /\ Cardinality(BaseCreations) <= 1
          /\ \A i \in BaseCreations :
                /\ i = 1
                /\ created[i].snapshot.keybindingsContent = created[i].content
                /\ created[i].snapshot.governanceState = created[i].state
                /\ StoredAsCreated(i)
                /\ Cardinality(NamedBase(snapshots)) = 1

\* a first-run activation repeated after an interrupted one, the user having
\* edited the file in between
C18_Witness ==
    /\ last.op = "activate"
    /\ NamedBase(last.before.snapshots) # {}
    /\ BaseCreations = {1}
    /\ ~last.renamedOrDeleted
    /\ StoredAsCreated(1)
    /\ created[1].content # RawContent(fileForm, file)

\* C19: a delete aimed at the Base snapshot is rejected: the history is left
\* as it was, Base in it.
C19_DeleteOfBaseRejected ==
    (last.op = "delete" /\ last.id \in BaseIds) =>
        /\ snapshots = last.before.snapshots
        /\ last.id \in StoredIds

\* C20: restore of a snapshot of the history leaves in the file exactly the
\* text the snapshot captured and returns the governance state it stored;
\* the service's restore leaves the governance store as it was.
C20_RestoreVerbatim ==
    (last.op \in {"restore", "restoreCommand"}) =>
        \A s \in Target :
            /\ RawContent(fileForm, file) = s.keybindingsContent
            /\ last.result = << s.governanceState >>
            /\ last.op = "restore" =>
                  mem = last.before.mem /\ persisted = last.before.persisted

---------------------------------------------------------------------------
(* Claims about restoring, unknown ids and confirmation *)
(* (checked under SpecSnapshotOps)                      *)

\* C21: after a confirmed restore that succeeds, by the restore command or
\* by the restore choice of the snapshot list, the file holds the entries of
\* the snapshot and the live and the stored governance state are the state
\* the snapshot holds.
C21_RestoreInstallsState ==
    (last.op \in {"restore", "restoreCommand"} /\ last.result # << >>) =>
        \A s \in Target :
            /\ file = (IF s.keybindingsContent.form = "object" THEN << >>
                       ELSE s.keybindingsContent.entries)
            /\ mem = s.governanceState
            /\ persisted = s.governanceState

\* the snapshot operations that take an id
IdOps == {"restore", "restoreCommand", "delete", "rename"}

\* C22: a snapshot operation on an id that is not in the history gives a
\* neutral negative result (undefined for restore, false for rename and for
\* delete where the command calls it) and leaves the history, the file and
\* the governance state as they were.
C22_UnknownIdChangesNothing ==
    (last.op \in IdOps /\ Target = {}) =>
        /\ ~last.threw
        /\ last.op \in {"restore", "restoreCommand"} => last.result = << >>
        /\ last.op = "rename" => last.result = << FALSE >>
        /\ last.op = "delete" => last.result \in { << >>, << FALSE >> }
        /\ snapshots = last.before.snapshots
        /\ file = last.before.file
        /\ fileForm = last.before.fileForm
        /\ mem = last.before.mem
        /\ persisted = last.before.persisted

\* a delete of a snapshot that an earlier delete removed, other snapshots
\* being in the history
C22_Witness ==
    /\ last.op = "delete"
    /\ Target = {}
    /\ last.result = << FALSE >>
    /\ snapshots # << >>

\* ---------------------------------------------------------------------
\* Snapshots and the live decisions object (SpecShared)
\* ---------------------------------------------------------------------

MaxSharedOps == 4

\* A method of the governance service that writes into this.state.decisions
\* in place (recordDecision: `this.state.decisions[id] = decision`,
\* unapproveKeybinding: `delete this.state.decisions[id]`) and saves: every
\* stored snapshot whose decisions are that same object shows the change.
MutatedInPlace(state) ==
    /\ mem' = state
    /\ Saved(state)
    /\ snapshots' = [j \in 1..Len(snapshots) |->
          IF refs.of[snapshots[j].id] = refs.live
          THEN [snapshots[j] EXCEPT !.governanceState.decisions = state.decisions]
          ELSE snapshots[j]]
    /\ last' = SnapRecord("decision", 0, Absent, << >>, FALSE)
    /\ UNCHANGED <<fileVars, fileForm, created, prevOp, taskVars, initialFile, arg,
                   host, refs>>

SharedCounted == nOps < MaxSharedOps /\ nOps' = nOps + 1

SharedActivate == SharedCounted /\ Activate(FALSE)
SharedCreate == SharedCounted /\ createSnapshotCommand("work")
SharedRestoreCommand ==
    \E id \in Pickable : SharedCounted /\ restoreSnapshotCommand(id, "confirm")
SharedApprove ==
    \E kb \in Bindings :
        /\ SharedCounted
        /\ Activated
        /\ MutatedInPlace(recordDecision(mem, kb, "approved", Absent))
SharedUnapprove ==
    \E kb \in Bindings :
        /\ SharedCounted
        /\ Activated
        /\ getStatus(mem, kb.id) = "approved"
        /\ MutatedInPlace(unapproveKeybinding(mem, kb))
SharedApproveAll ==
    \E e \in Extensions :
        /\ SharedCounted
        /\ Activated
        /\ MutatedInPlace(approveAllFromExtension(World(file, mem), e).state)

NextShared ==
    \/ SharedActivate
    \/ SharedCreate
    \/ SharedRestoreCommand
    \/ SharedApprove
    \/ SharedUnapprove
    \/ SharedApproveAll

InitShared ==
    /\ file = << >>
    /\ fileForm = "canonical"
    /\ InitBase
    /\ snapshots = << >>
    /\ created = << >>
    /\ arg = Absent
    /\ host \in Hosts

SpecShared == InitShared /\ [][NextShared]_vars

\* C23: every snapshot in the history holds the governance state it was
\* created with, whatever the governance service has done since.
C23_SnapshotsKeepDecisions ==
    \A j \in 1..Len(snapshots) :
        snapshots[j].governanceState = created[snapshots[j].id].snapshot.governanceState

---------------------------------------------------------------------------
(* SpecBackup: export of the decisions and import of a backup document *)

MaxBackupOps == 4
MaxImportOps == 2
\* longest list of entries in a document written by hand
MaxEntries == 2

\* The extensions installed: the bindings of Spec, or one binding of each of
\* two extensions, the second with a context.
Installations ==
    { getAllExtensionKeybindings,
      << Keybinding("ctrl+k", "ext.a", Absent, "pub.one"),
         Keybinding("ctrl+k", "ext.b", "editorTextFocus", "pub.two") >> }

\* the entries of the exported document in the order Object.values() gives
\* them back: grouped by extension, the groups in order of first appearance
\* (the group's name is the extension's display name, here its id)
RECURSIVE byExtension(_)
byExtension(allShortcuts) ==
    IF allShortcuts = << >> THEN << >>
    ELSE LET extName == Head(allShortcuts).extensionId
         IN  << SelectSeq(allShortcuts, LAMBDA s : s.extensionId = extName) >>
                \o byExtension(SelectSeq(allShortcuts, LAMBDA s : s.extensionId # extName))

\* a parsed backup document: version, extensions (<< >> when there is none,
\* else the list of its groups) and shortcuts
ImportData(version, extensions, shortcuts, isArray) ==
    [version |-> version, extensions |-> extensions,
     shortcuts |-> [isArray |-> isArray, items |-> shortcuts]]

\* the exportSettings case: getGovernedKeybindings of every binding, one entry
\* each (`when: kb.when || undefined`, remappedKey of a remapped binding only)
exportSettings(state, allBindings) ==
    LET entry(kb) ==
            LET status == getStatus(state, kb.id)
            IN  Shortcut(kb.key, kb.command,
                         IF Truthy(kb.when) THEN kb.when ELSE Absent,
                         status,
                         IF status = "remapped" THEN state.decisions[kb.id].remappedKey
                         ELSE Absent,
                         kb.extensionId)
        allShortcuts == [i \in 1..Len(allBindings) |-> entry(allBindings[i])]
    IN  ImportData(3, << byExtension(allShortcuts) >>, << >>, FALSE)

RECURSIVE flatten(_)
flatten(groups) ==
    IF groups = << >> THEN << >> ELSE Head(groups) \o flatten(Tail(groups))

\* the Keybinding the importSettings case builds of an entry
importedKeybinding(shortcut) ==
    [id |-> AuditPanelProvider_generateKeybindingId(shortcut.key, shortcut.command,
                                                    shortcut.when),
     key |-> shortcut.key, command |-> shortcut.command, when |-> shortcut.when,
     source |-> "extension", extensionId |-> shortcut.extensionId]

Imported(w, error, appliedCount, skippedCount) ==
    [w |-> w, error |-> error, appliedCount |-> appliedCount,
     skippedCount |-> skippedCount]

\* a mutant of importEntry: an entry that lacks a field is counted as applied
importEntryCountsAll(r, shortcut) ==
    LET kb == importedKeybinding(shortcut)
        applied(w) == Imported(w, FALSE, r.appliedCount + 1, r.skippedCount)
        skipped == Imported(r.w, FALSE, r.appliedCount, r.skippedCount + 1)
    IN  IF ~Truthy(shortcut.key) \/ ~Truthy(shortcut.command) \/ ~Truthy(shortcut.status)
        THEN applied(r.w)
        ELSE IF shortcut.status = "deactivated"
        THEN applied(applyDecision(r.w, kb, "deactivate", Absent))
        ELSE IF shortcut.status = "remapped" /\ Truthy(shortcut.remappedKey)
        THEN applied(applyDecision(r.w, kb, "remap", shortcut.remappedKey))
        ELSE IF shortcut.status = "approved" THEN applied(approveKeybinding(r.w, kb))
        ELSE IF shortcut.status = "skipped" THEN applied(skipKeybinding(r.w, kb))
        ELSE IF shortcut.status = "pending" THEN applied(r.w)
        ELSE skipped

\* the body of the loop of the importSettings case
importEntry(r, shortcut) ==
    LET kb == importedKeybinding(shortcut)
        applied(w) == Imported(w, FALSE, r.appliedCount + 1, r.skippedCount)
        skipped == Imported(r.w, FALSE, r.appliedCount, r.skippedCount + 1)
    IN  IF ~Truthy(shortcut.key) \/ ~Truthy(shortcut.command) \/ ~Truthy(shortcut.status)
        THEN skipped
        ELSE IF shortcut.status = "deactivated"
        THEN applied(applyDecision(r.w, kb, "deactivate", Absent))
        ELSE IF shortcut.status = "remapped" /\ Truthy(shortcut.remappedKey)
        THEN applied(applyDecision(r.w, kb, "remap", shortcut.remappedKey))
        ELSE IF shortcut.status = "approved" THEN applied(approveKeybinding(r.w, kb))
        ELSE IF shortcut.status = "skipped" THEN applied(skipKeybinding(r.w, kb))
        ELSE IF shortcut.status = "pending" THEN applied(r.w)
        ELSE skipped

RECURSIVE importLoop(_, _)
importLoop(r, shortcuts) ==
    IF shortcuts = << >> THEN r
    ELSE importLoop(importEntry(r, Head(shortcuts)), Tail(shortcuts))

\* the shortcuts the importSettings case finds in a document, << >> around
\* them, or << >> when it throws 'Invalid backup file format'
shortcutsOf(importData) ==
    IF importData.version = 3 /\ importData.extensions # << >>
    THEN << flatten(importData.extensions[1]) >>
    ELSE IF importData.version = 2 /\ importData.shortcuts.isArray
    THEN << importData.shortcuts.items >>
    ELSE << >>

\* the importSettings case, a file chosen and parsed; the catch reports the
\* error
importSettings(w, importData) ==
    LET shortcuts == shortcutsOf(importData)
    IN  IF shortcuts = << >> THEN Imported(w, TRUE, 0, 0)
        ELSE importLoop(Imported(w, FALSE, 0, 0), shortcuts[1])

\* entries written by hand: two decisions, a remap without its key, an entry
\* without a status, one without a key and one of a status there is none of
HandEntries ==
    { Shortcut("ctrl+k", "ext.a", Absent, "deactivated", Absent, "pub.one"),
      Shortcut("ctrl+j", "ext.a", "editorTextFocus", "approved", Absent, "pub.one"),
      Shortcut("ctrl+k", "ext.b", Absent, "remapped", Absent, "pub.two"),
      Shortcut("ctrl+k", "ext.b", Absent, Absent, Absent, "pub.two"),
      Shortcut(Absent, "ext.a", Absent, "approved", Absent, "pub.one"),
      Shortcut("ctrl+j", "ext.a", "editorTextFocus", "ignored", Absent, "pub.one") }

HandLists == SeqsUpTo(HandEntries, MaxEntries)
OneEntry == { << e >> : e \in HandEntries }

\* documents a user may choose: both formats, and shapes that are neither
HandDocuments ==
    { ImportData(2, << >>, l, TRUE) : l \in HandLists }
    \cup { ImportData(3, << << l >> >>, << >>, FALSE) : l \in HandLists \ { << >> } }
    \cup { ImportData(3, << >>, l, TRUE) : l \in OneEntry }
    \cup { ImportData(2, << << l >> >>, l, FALSE) : l \in OneEntry }
    \cup { ImportData(1, << << l >> >>, l, TRUE) : l \in OneEntry }

BackupRecord(op, importData, r) ==
    [op |-> op, document |-> importData, error |-> r.error,
     appliedCount |-> r.appliedCount, skippedCount |-> r.skippedCount,
     before |-> [file |-> file, state |-> mem]]

\* a handler has run to its end and left w
Reached(w) ==
    /\ file' = w.file
    /\ everWritten' = everWritten \cup (IF w.file # file THEN EntriesOf(w.file) ELSE {})
    /\ mem' = w.state
    /\ persisted' = IF w.saved THEN w.state ELSE persisted
    /\ fired' = IF w.saved
                THEN [seen |-> TRUE, state |-> w.state, stored |-> w.state]
                ELSE fired

BackupCounted == nOps < MaxBackupOps /\ nOps' = nOps + 1

BackupRest == UNCHANGED <<prevOp, taskVars, initialFile, fileForm, snapshots, created,
                          host, refs>>

Installed == { arg.installed[i] : i \in 1..Len(arg.installed) }

\* a decision taken in the panel
Decide(kb, action) ==
        /\ getStatus(mem, kb.id) = "pending"
        /\ Reached(CASE action = "approve" -> approveKeybinding(Start, kb)
                     [] action = "skip" -> skipKeybinding(Start, kb)
                     [] action = "deactivate" -> applyDecision(Start, kb, "deactivate", Absent)
                     [] action = "remap" -> applyDecision(Start, kb, "remap", "ctrl+m"))
        /\ last' = BackupRecord("decide", << >>, Imported(Start, FALSE, 0, 0))
        /\ UNCHANGED arg
        /\ BackupRest

PanelActions == {"approve", "skip", "deactivate", "remap"}

BackupDecide ==
    \E kb \in Installed, action \in PanelActions : BackupCounted /\ Decide(kb, action)

\* the exportSettings case, a file chosen: arg.exported is the document
\* written and, as a ghost, the state it was written of
BackupExport ==
    /\ BackupCounted
    /\ LET document == exportSettings(mem, arg.installed)
       IN  /\ arg' = [arg EXCEPT !.exported = << [document |-> document, state |-> mem] >>]
           /\ last' = BackupRecord("export", document, Imported(Start, FALSE, 0, 0))
    /\ UNCHANGED <<fileVars, govVars>>
    /\ BackupRest

\* the backup is taken to a profile that has the same extensions, an empty
\* keybindings file and no decisions
BackupFresh ==
    /\ BackupCounted
    /\ arg.exported # << >>
    /\ Reached(World(<< >>, createEmptyGovernanceState))
    /\ last' = BackupRecord("fresh", << >>, Imported(Start, FALSE, 0, 0))
    /\ UNCHANGED arg
    /\ BackupRest

BackupImported(importData) ==
    /\ LET r == importSettings(Start, importData)
       IN  /\ Reached(r.w)
           /\ last' = BackupRecord("import", importData, r)
    /\ UNCHANGED arg
    /\ BackupRest

\* the importSettings case, the exported document chosen
BackupImportExported ==
    /\ BackupCounted
    /\ arg.exported # << >>
    /\ BackupImported(arg.exported[1].document)

NextBackup ==
    \/ BackupDecide
    \/ BackupExport
    \/ BackupFresh
    \/ BackupImportExported

InitBackup ==
    /\ file = << >>
    /\ fileForm = "canonical"
    /\ InitBase
    /\ snapshots = << >>
    /\ created = << >>
    /\ arg \in { [installed |-> i, exported |-> << >>] : i \in Installations }
    /\ host = "clone"

SpecBackup == InitBackup /\ [][NextBackup]_vars

\* SpecImport: decisions, and documents written by hand imported
ImportCounted == nOps < MaxImportOps /\ nOps' = nOps + 1

ImportDecide ==
    \E kb \in Installed, action \in PanelActions : ImportCounted /\ Decide(kb, action)

\* the importSettings case, a document of HandDocuments chosen; the runs
\* considered end with it
ImportByHand ==
    \E importData \in HandDocuments :
        /\ nOps < MaxImportOps
        /\ nOps' = MaxImportOps
        /\ BackupImported(importData)

NextImport ==
    \/ ImportDecide
    \/ ImportByHand

SpecImport == InitBackup /\ [][NextImport]_vars

---------------------------------------------------------------------------
(* Claims about the backup (checked under SpecBackup) *)

\* C24: when the exported document is imported into a state without
\* decisions, every installed binding has, under the id the parser gives it,
\* the status it had when the document was exported, and a remapped binding
\* the same remapped key.
C24_RoundTrip ==
    (/\ last.op = "import"
     /\ arg.exported # << >>
     /\ last.document = arg.exported[1].document
     /\ last.before.state = createEmptyGovernanceState) =>
        \A kb \in Installed :
            LET exported == arg.exported[1].state
                status == getStatus(exported, kb.id)
            IN  /\ getStatus(mem, kb.id) = status
                /\ status = "remapped" =>
                      mem.decisions[kb.id].remappedKey = exported.decisions[kb.id].remappedKey

---------------------------------------------------------------------------
(* Claims about documents written by hand (checked under SpecImport) *)

\* an entry that lacks its key, its command or its status
Incomplete(shortcut) ==
    ~Truthy(shortcut.key) \/ ~Truthy(shortcut.command) \/ ~Truthy(shortcut.status)

\* an entry the import has nothing to do with: incomplete, of a status that
\* is none of the five, or remapped with no key to remap to
Unusable(shortcut) ==
    \/ Incomplete(shortcut)
    \/ shortcut.status \notin Statuses
    \/ shortcut.status = "remapped" /\ ~Truthy(shortcut.remappedKey)

\* The import the last step made: a document of neither format is an error
\* and leaves file and state as they were; of a document of either format
\* the entries for which `left` holds are counted as skipped and the others
\* as applied, and file and state are those the others alone lead to.
ImportedAsIf(left(_)) ==
    LET found == shortcutsOf(last.document)
        before == [file |-> last.before.file, state |-> last.before.state,
                   saved |-> FALSE]
    IN  IF found = << >>
        THEN last.error /\ file = before.file /\ mem = before.state
        ELSE LET rest == SelectSeq(found[1], LAMBDA sc : ~left(sc))
                 alone == importLoop(Imported(before, FALSE, 0, 0), rest).w
             IN  /\ ~last.error
                 /\ last.skippedCount = Len(found[1]) - Len(rest)
                 /\ last.appliedCount = Len(rest)
                 /\ file = alone.file
                 /\ mem = alone.state

---------------------------------------------------------------------------
(* SpecText: keybindings.json as characters; read() of KeybindingsFileService *)

MaxTextEntries == 2

QUOTE == "\""
BACKSLASH == "\\"
NEWLINE == "\n"

\* the loop of stripJsonComments, from position i on (content[i - 1] of the
\* first character is undefined)
RECURSIVE stripLoop(_, _, _, _, _, _)
stripLoop(content, i, inString, inLineComment, inBlockComment, result) ==
    IF i > Len(content) THEN result
    ELSE LET char == content[i]
             nextChar == IF i < Len(content) THEN content[i + 1] ELSE Absent
             previous == IF i > 1 THEN content[i - 1] ELSE Absent
         IN  IF inString
             THEN stripLoop(content, i + 1,
                            ~(char = QUOTE /\ previous # BACKSLASH),
                            inLineComment, inBlockComment, Append(result, char))
             ELSE IF inLineComment
             THEN stripLoop(content, i + 1, FALSE, char # NEWLINE, inBlockComment,
                            IF char = NEWLINE THEN Append(result, char) ELSE result)
             ELSE IF inBlockComment
             THEN IF char = "*" /\ nextChar = "/"
                  THEN stripLoop(content, i + 2, FALSE, FALSE, FALSE, result)
                  ELSE stripLoop(content, i + 1, FALSE, FALSE, TRUE, result)
             ELSE IF char = QUOTE
             THEN stripLoop(content, i + 1, TRUE, FALSE, FALSE, Append(result, char))
             ELSE IF char = "/" /\ nextChar = "/"
             THEN stripLoop(content, i + 2, FALSE, TRUE, FALSE, result)
             ELSE IF char = "/" /\ nextChar = "*"
             THEN stripLoop(content, i + 2, FALSE, FALSE, TRUE, result)
             ELSE stripLoop(content, i + 1, FALSE, FALSE, FALSE, Append(result, char))

stripJsonComments(content) == stripLoop(content, 1, FALSE, FALSE, FALSE, << >>)

\* JSON.parse, for texts of arrays, objects and strings. A value parsed is
\* written as a sequence: "[" and "]" around the elements of an array, "{"
\* and "}" around the names and values of an object, "str" and "end" around
\* the characters of a string, escapes decoded.
Parsed(ok, out, next) == [ok |-> ok, out |-> out, next |-> next]
Failed == Parsed(FALSE, << >>, 0)

RECURSIVE skipWhitespace(_, _)
skipWhitespace(text, i) ==
    IF i <= Len(text) /\ text[i] \in {" ", NEWLINE} THEN skipWhitespace(text, i + 1)
    ELSE i

At(text, i) == IF i <= Len(text) THEN text[i] ELSE Absent

\* the characters of a string from position i on, the opening quote read
RECURSIVE parseChars(_, _, _)
parseChars(text, i, out) ==
    IF i > Len(text) \/ text[i] = NEWLINE THEN Failed
    ELSE IF text[i] = QUOTE THEN Parsed(TRUE, Append(out, "end"), i + 1)
    ELSE IF text[i] = BACKSLASH
    THEN IF At(text, i + 1) \in {QUOTE, BACKSLASH, "/"}
         THEN parseChars(text, i + 2, Append(out, text[i + 1]))
         ELSE Failed
    ELSE parseChars(text, i + 1, Append(out, text[i]))

parseString(text, i) ==
    IF At(text, i) = QUOTE THEN parseChars(text, i + 1, << "str" >>) ELSE Failed

RECURSIVE parseValue(_, _)
RECURSIVE parseElements(_, _, _)
RECURSIVE parseMembers(_, _, _)

\* the elements of an array after its first, or its end
parseElements(text, i, out) ==
    LET j == skipWhitespace(text, i)
    IN  IF At(text, j) = "]" THEN Parsed(TRUE, Append(out, "]"), j + 1)
        ELSE IF At(text, j) = ","
        THEN LET v == parseValue(text, j + 1)
             IN  IF v.ok THEN parseElements(text, v.next, out \o v.out) ELSE Failed
        ELSE Failed

parseMember(text, i) ==
    LET name == parseString(text, skipWhitespace(text, i))
    IN  IF ~name.ok THEN Failed
        ELSE LET j == skipWhitespace(text, name.next)
             IN  IF At(text, j) # ":" THEN Failed
                 ELSE LET v == parseValue(text, j + 1)
                      IN  IF v.ok THEN Parsed(TRUE, name.out \o v.out, v.next)
                          ELSE Failed

\* the members of an object after its first, or its end
parseMembers(text, i, out) ==
    LET j == skipWhitespace(text, i)
    IN  IF At(text, j) = "}" THEN Parsed(TRUE, Append(out, "}"), j + 1)
        ELSE IF At(text, j) = ","
        THEN LET m == parseMember(text, j + 1)
             IN  IF m.ok THEN parseMembers(text, m.next, out \o m.out) ELSE Failed
        ELSE Failed

parseValue(text, i) ==
    LET j == skipWhitespace(text, i)
        k == skipWhitespace(text, j + 1)
    IN  CASE At(text, j) = QUOTE -> parseString(text, j)
          [] At(text, j) = "[" ->
                IF At(text, k) = "]" THEN Parsed(TRUE, << "[", "]" >>, k + 1)
                ELSE LET v == parseValue(text, k)
                     IN  IF v.ok THEN parseElements(text, v.next, << "[" >> \o v.out)
                         ELSE Failed
          [] At(text, j) = "{" ->
                IF At(text, k) = "}" THEN Parsed(TRUE, << "{", "}" >>, k + 1)
                ELSE LET m == parseMember(text, k)
                     IN  IF m.ok THEN parseMembers(text, m.next, << "{" >> \o m.out)
                         ELSE Failed
          [] OTHER -> Failed

\* JSON.parse(text): a SyntaxError, or the value and whether it is an array
JSONparseText(text) ==
    LET v == parseValue(text, 1)
    IN  IF v.ok /\ skipWhitespace(text, v.next) > Len(text)
        THEN [threw |-> FALSE, isArray |-> Head(v.out) = "[", value |-> v.out]
        ELSE [threw |-> TRUE, isArray |-> FALSE, value |-> << >>]

\* what a try block leaves: the exception thrown in it, or its value
Tried(threw, value) == [threw |-> threw, value |-> value]

EmptyList == << "[", "]" >>

\* a mutant of parseKeybindings: no catch
parseKeybindingsNoCatch(content) ==
    LET parsed == JSONparseText(stripJsonComments(content))
    IN  IF parsed.threw THEN Tried(TRUE, << >>)
        ELSE Tried(FALSE, IF parsed.isArray THEN parsed.value ELSE EmptyList)

\* parseKeybindings: `Array.isArray(parsed) ? parsed : []`, and [] in the catch
parseKeybindings(content) ==
    LET parsed == JSONparseText(stripJsonComments(content))
    IN  IF parsed.threw THEN Tried(FALSE, EmptyList)
        ELSE Tried(FALSE, IF parsed.isArray THEN parsed.value ELSE EmptyList)

\* readRaw() of a file that may be missing: '[]' in the catch
readRawText(input) ==
    IF input.missing THEN << "[", "]" >> ELSE input.text

\* read()
read(input) == parseKeybindings(readRawText(input))

\* The texts read. A list of entries is written `[{"key":K},{"key":K}]` with
\* a comment or none before each entry and before the closing bracket.
KeyLiterals ==
    { << QUOTE, "k", QUOTE >>,
      << QUOTE, "/", "/", QUOTE >>,
      << QUOTE, "/", "*", QUOTE >>,
      << QUOTE, "+", BACKSLASH, BACKSLASH, QUOTE >> }

Comments ==
    { << >>,
      << "/", "/", " ", "c", NEWLINE >>,
      << "/", "*", "c", "*", "/" >> }

EntryText(literal) ==
    << "{", QUOTE, "k", "e", "y", QUOTE, ":" >> \o literal \o << "}" >>

\* the entries from the i-th on, each after its comment
RECURSIVE ListBody(_, _, _)
ListBody(literals, comments, i) ==
    IF i > Len(literals) THEN comments[i] \o << "]" >>
    ELSE comments[i] \o EntryText(literals[i])
            \o (IF i < Len(literals) THEN << "," >> ELSE << >>)
            \o ListBody(literals, comments, i + 1)

ListText(literals, comments) == << "[" >> \o ListBody(literals, comments, 1)

NoComments(n) == [i \in 1..(n + 1) |-> << >>]

\* an input: the text in the file, or none when the file is missing; for a
\* list, `plain` is the same list written without comments
TextInput(missing, text, isList, plain) ==
    [missing |-> missing, text |-> text, isList |-> isList, plain |-> plain]

ListInputs ==
    UNION { { TextInput(FALSE, ListText(l, c), TRUE, ListText(l, NoComments(n))) :
                l \in [1..n -> KeyLiterals], c \in [1..(n + 1) -> Comments] } :
            n \in 0..MaxTextEntries }

\* a missing file, an empty file, an array never closed, a comment never
\* closed, an object and a string
OtherInputs ==
    { TextInput(TRUE, << >>, FALSE, << >>),
      TextInput(FALSE, << >>, FALSE, << >>),
      TextInput(FALSE, << "[" >> \o EntryText(<< QUOTE, "k", QUOTE >>), FALSE, << >>),
      TextInput(FALSE, << "[", "]", "/", "*", "c" >>, FALSE, << >>),
      TextInput(FALSE, << "/", "/", "c", NEWLINE >> \o EntryText(<< QUOTE, "k", QUOTE >>),
                FALSE, << >>),
      TextInput(FALSE, << QUOTE, "k", QUOTE >>, FALSE, << >>) }

TextRecord(op, r) == [op |-> op, threw |-> r.threw, result |-> r.value]

\* KeybindingsFileService.read() of the file
TextRead ==
    /\ nOps = 0
    /\ nOps' = 1
    /\ last' = TextRecord("read", read(arg))
    /\ UNCHANGED <<fileVars, govVars, prevOp, taskVars, initialFile, otherVars>>

NextText == TextRead

InitText ==
    /\ file = << >>
    /\ fileForm = "canonical"
    /\ InitBase
    /\ snapshots = << >>
    /\ created = << >>
    /\ arg \in ListInputs \cup OtherInputs
    /\ host = "clone"

SpecText == InitText /\ [][NextText]_vars

---------------------------------------------------------------------------
(* Claims about reading the file (checked under SpecText) *)

\* C26: read() never throws, and a missing file, a text that is not JSON
\* once the comments are stripped and a JSON value that is not an array all
\* give the empty list.
C26_ReadNeverThrows ==
    last.op = "read" =>
        /\ ~last.threw
        /\ LET parsed == JSONparseText(stripJsonComments(arg.text))
           IN  (arg.missing \/ parsed.threw \/ ~parsed.isArray) =>
                   last.result = EmptyList

C26_Witness ==
    /\ last.op = "read"
    /\ ~arg.missing
    /\ JSONparseText(stripJsonComments(arg.text)).threw
    /\ last.result = EmptyList

\* C27: a list written with comments outside its strings is read as the
\* same list written without them, whatever its strings hold.
C27_CommentedListReadsTheSame ==
    (last.op = "read" /\ arg.isList) =>
        last.result = JSONparseText(arg.plain).value

---------------------------------------------------------------------------
(* SpecLoad: the governance state found in globalState at construction *)

MaxLoadOps == 2

\* What globalState may hold under the key: nothing (<< >>), a state
\* saveState() wrote, or a value that is no governance state: one without
\* `decisions`.
StoredValues ==
    { << >>,
      << createEmptyGovernanceState >>,
      << recordDecision([createEmptyGovernanceState EXCEPT !.initialAuditComplete = TRUE],
                        getAllExtensionKeybindings[1], "approved", Absent) >>,
      << [initialAuditComplete |-> FALSE] >>,
      << [initialAuditComplete |-> TRUE] >> }

\* loadState(): globalState.get(key, createEmptyGovernanceState())
loadState(stored) ==
    IF stored = << >> THEN createEmptyGovernanceState ELSE stored[1]

\* `this.state.decisions[...]` is a TypeError when this.state.decisions is
\* undefined
decisionsThrows(state) == "decisions" \notin DOMAIN state

LoadRecord(op, threw, result) == [op |-> op, threw |-> threw, result |-> result]

LoadCounted == nOps < MaxLoadOps /\ nOps' = nOps + 1

\* getStatus(keybindingId)
LoadGetStatus ==
    \E id \in StatusIds :
        /\ LoadCounted
        /\ last' = IF decisionsThrows(mem) THEN LoadRecord("getStatus", TRUE, Absent)
                   ELSE LoadRecord("getStatus", FALSE, getStatus(mem, id))
        /\ UNCHANGED <<fileVars, govVars, prevOp, taskVars, initialFile, otherVars>>

\* recordDecision(keybinding, status): the assignment to
\* this.state.decisions[keybinding.id] throws before saveState()
LoadRecordDecision ==
    \E kb \in Bindings, status \in {"approved", "skipped"} :
        /\ LoadCounted
        /\ IF decisionsThrows(mem)
           THEN /\ last' = LoadRecord("recordDecision", TRUE, Absent)
                /\ UNCHANGED govVars
           ELSE /\ last' = LoadRecord("recordDecision", FALSE, Absent)
                /\ mem' = recordDecision(mem, kb, status, Absent)
                /\ Saved(recordDecision(mem, kb, status, Absent))
        /\ UNCHANGED <<fileVars, prevOp, taskVars, initialFile, otherVars>>

NextLoad ==
    \/ LoadGetStatus
    \/ LoadRecordDecision

\* the constructor has run: this.state = this.loadState()
InitLoad ==
    /\ file = << >>
    /\ fileForm = "canonical"
    /\ everWritten = {}
    /\ arg \in StoredValues
    /\ mem = loadState(arg)
    /\ persisted = loadState(arg)
    /\ fired = NoFire
    /\ last = LoadRecord("none", FALSE, Absent)
    /\ prevOp = NoOp
    /\ tasks = NoTasks
    /\ updateQueue = << >>
    /\ crashed = FALSE
    /\ nOps = 0
    /\ initialFile = file
    /\ refs = NoRefs
    /\ snapshots = << >>
    /\ created = << >>
    /\ host = "clone"

SpecLoad == InitLoad /\ [][NextLoad]_vars

\* C28: when globalState holds nothing under the key, or a value without
\* decisions, the state loaded is the empty state, and no getStatus or
\* recordDecision throws afterwards.
C28_LoadYieldsEmptyState ==
    (arg = << >> \/ "decisions" \notin DOMAIN arg[1]) =>
        /\ nOps = 0 => mem = createEmptyGovernanceState
        /\ ~last.threw

---------------------------------------------------------------------------
(* SpecBatch: the batch actions of the panel and the commands that ask *)

MaxBatchOps == 3

\* the answers to the panel's warnings: a button, or the warning dismissed
PanelAnswers == {"Yes", "No", Absent}

\* the extension bindings of the conflicts, in the order of the two loops
RECURSIVE bindingsOf(_)
bindingsOf(conflicts) ==
    IF conflicts = << >> THEN << >>
    ELSE SelectSeq(Head(conflicts).bindings, LAMBDA b : b.source = "extension")
            \o bindingsOf(Tail(conflicts))

RECURSIVE deactivateEach(_, _)
deactivateEach(w, bindings) ==
    IF bindings = << >> THEN w
    ELSE deactivateEach(applyDecision(w, Head(bindings), "deactivate", Absent),
                        Tail(bindings))

\* a mutant of deactivateAllConflicting: the bindings of the first conflict
\* only are deactivated
deactivateFirstConflicting(w) ==
    LET user == getUserKeybindings(w.file)
        activeExtension ==
            SelectSeq(getAllExtensionKeybindings,
                      LAMBDA kb : getStatus(w.state, kb.id) \notin {"deactivated", "remapped"})
        conflicts == detectConflicts(user, activeExtension)
    IN  deactivateEach(w, bindingsOf(IF conflicts = << >> THEN << >>
                                     ELSE << Head(conflicts) >>))

\* the deactivateAllConflicting case, confirmed
deactivateAllConflicting(w) ==
    LET user == getUserKeybindings(w.file)
        activeExtension ==
            SelectSeq(getAllExtensionKeybindings,
                      LAMBDA kb : getStatus(w.state, kb.id) \notin {"deactivated", "remapped"})
        conflicts == detectConflicts(user, activeExtension)
    IN  deactivateEach(w, bindingsOf(conflicts))

BatchCounted == nOps < MaxBatchOps /\ nOps' = nOps + 1

BatchRest == UNCHANGED <<fileForm, snapshots, created, prevOp, taskVars, initialFile,
                         arg, host, refs>>

\* a decision taken in the panel on an unreviewed binding
BatchDecide ==
    \E kb \in Bindings, action \in {"approve", "deactivate"} :
        /\ BatchCounted
        /\ getStatus(mem, kb.id) = "pending"
        /\ Reached(IF action = "approve" THEN approveKeybinding(Start, kb)
                   ELSE applyDecision(Start, kb, "deactivate", Absent))
        /\ last' = SnapRecord(action, kb.id, Absent, << >>, FALSE)
        /\ BatchRest

\* the approveAll case
BatchApproveAll ==
    \E extensionId \in Extensions :
        /\ BatchCounted
        /\ LET r == approveAllCounted(Start, extensionId)
           IN  /\ Reached(r.w)
               /\ last' = SnapRecord("approveAll", extensionId, Absent, << r.count >>, FALSE)
        /\ BatchRest

\* the deactivateAll case
BatchDeactivateAll ==
    \E extensionId \in Extensions, answer \in PanelAnswers :
        /\ BatchCounted
        /\ IF answer = "Yes"
           THEN LET r == deactivateAllCounted(Start, extensionId)
                IN  /\ Reached(r.w)
                    /\ last' = Answered(SnapRecord("deactivateAll", extensionId, Absent,
                                                   << r.count >>, FALSE), answer)
           ELSE /\ last' = Answered(SnapRecord("deactivateAll", extensionId, Absent,
                                               << >>, FALSE), answer)
                /\ UNCHANGED <<fileVars, govVars>>
        /\ BatchRest

\* the deactivateAllConflicting case
BatchDeactivateAllConflicting ==
    \E answer \in PanelAnswers :
        /\ BatchCounted
        /\ IF answer = "Yes"
           THEN Reached(deactivateAllConflicting(Start))
           ELSE UNCHANGED <<fileVars, govVars>>
        /\ last' = Answered(SnapRecord("deactivateAllConflicting", Absent, Absent,
                                       << >>, FALSE), answer)
        /\ BatchRest

BatchActivate == BatchCounted /\ Activate(FALSE)
BatchCreate == BatchCounted /\ createSnapshotCommand("work")
BatchRestoreCommand ==
    \E id \in Pickable, answer \in Answers :
        BatchCounted /\ restoreSnapshotCommand(id, answer)
BatchRestore ==
    \E id \in Pickable, answer \in Answers :
        BatchCounted /\ showSnapshotsRestore(id, answer)
BatchDelete ==
    \E id \in Pickable, answer \in Answers :
        BatchCounted /\ showSnapshotsDelete(id, answer)

NextBatch ==
    \/ BatchDecide
    \/ BatchApproveAll
    \/ BatchDeactivateAll
    \/ BatchDeactivateAllConflicting
    \/ BatchActivate
    \/ BatchCreate
    \/ BatchRestoreCommand
    \/ BatchRestore
    \/ BatchDelete

InitBatch ==
    /\ file \in UserFiles
    /\ InitRest

SpecBatch == InitBatch /\ [][NextBatch]_vars

---------------------------------------------------------------------------
(* Claims about the batch actions and the confirmations (SpecBatch) *)

\* the bindings of the extension the last batch was asked for that were
\* unreviewed before it, in the parser's order
PendingBefore ==
    SelectSeq(getKeybindingsForExtension(last.id),
              LAMBDA kb : getStatus(last.before.mem, kb.id) = "pending")

PendingIds == { PendingBefore[i].id : i \in 1..Len(PendingBefore) }

\* C29: a batch approve or a confirmed batch deactivate of an extension
\* gives its unreviewed bindings, and no other, the new status; it returns
\* their number; every other decision is as it was; approving leaves the
\* file as it was, and deactivating appends one negation entry per binding
\* changed.
C29_BatchChangesPendingOnly ==
    (last.op = "approveAll" \/ (last.op = "deactivateAll" /\ last.answer = "Yes")) =>
        LET before == last.before
            status == IF last.op = "approveAll" THEN "approved" ELSE "deactivated"
        IN  /\ last.result = << Len(PendingBefore) >>
            /\ \A id \in PendingIds : getStatus(mem, id) = status
            /\ DOMAIN mem.decisions = DOMAIN before.mem.decisions \cup PendingIds
            /\ \A id \in DOMAIN before.mem.decisions \ PendingIds :
                  mem.decisions[id] = before.mem.decisions[id]
            /\ persisted.decisions = mem.decisions
            /\ IF last.op = "approveAll" THEN file = before.file
               ELSE /\ Len(file) = Len(before.file) + Len(PendingBefore)
                    /\ SubSeq(file, 1, Len(before.file)) = before.file
                    /\ \A i \in 1..Len(PendingBefore) :
                          LET entry == file[Len(before.file) + i]
                              kb == PendingBefore[i]
                          IN  /\ entry.key = kb.key
                              /\ entry.command = "-" \o kb.command
                              /\ entry.when = kb.when

C29_Witness ==
    /\ last.op = "deactivateAll"
    /\ last.answer = "Yes"
    /\ last.result = << 1 >>
    /\ Len(getKeybindingsForExtension(last.id)) = 2
    /\ \E kb \in Bindings : kb.extensionId # last.id /\ kb.id \in DOMAIN mem.decisions

Destructive ==
    {"restoreCommand", "restore", "delete", "deactivateAll", "deactivateAllConflicting"}

\* C30: a restore, a delete, a batch deactivate or a deactivate-all-
\* conflicting whose question is not answered with the confirming button
\* leaves the file, the governance state and the snapshots as they were.
C30_DeclinedChangesNothing ==
    (last.op \in Destructive /\ last.answer \notin {"confirm", "Yes"}) =>
        /\ file = last.before.file
        /\ fileForm = last.before.fileForm
        /\ mem = last.before.mem
        /\ persisted = last.before.persisted
        /\ snapshots = last.before.snapshots

C30_Witness ==
    /\ last.op = "delete"
    /\ last.answer = "cancel"
    /\ last.id \in Offered
    /\ last.name # BaseSnapshotName

---------------------------------------------------------------------------
(* Claims about uninstalling and about decisions and their entries (Spec) *)

\* how often an entry occurs in a list, as the program sees entries
Copies(list, e) == Cardinality({ i \in 1..Len(list) : Plain(list[i]) = e })

\* C31: when prepareForUninstall has completed, the file holds no entry
\* that a governance action added (no entry occurs more often than in the
\* file the user had) and the governance state is the empty state.
C31_UninstallLeavesNoEntry ==
    last.op = "uninstall" =>
        /\ \A i \in 1..Len(file) :
              Copies(file, Plain(file[i])) <= Copies(initialFile, Plain(file[i]))
        /\ mem = createEmptyGovernanceState

---------------------------------------------------------------------------
(* Claims about the construction of groups (SpecConflict) *)

\* the bucket of keyMap a group was built from
BucketOf(conflict) ==
    CHOOSE k \in 1..Len(last.keyMap) :
        last.keyMap[k].key = normalizeKey(conflict.bindings[1].key)

\* where the first member of a group stands in its bucket
SeedAt(conflict) ==
    LET bucket == last.keyMap[BucketOf(conflict)].bindings
    IN  CHOOSE p \in 1..Len(bucket) :
            /\ bucket[p] = conflict.bindings[1]
            /\ \A q \in 1..(p - 1) : bucket[q] # conflict.bindings[1]

\* C32: every group detectConflicts emits has at least two members, its
\* members share one normalized key, each member's context overlaps that of
\* the first member, no binding is in two groups, the groups follow the order
\* of the buckets and, within a bucket, of their first members, and the
\* members of a group stand in arrival order, user bindings first.
C32_GroupConstruction ==
    last.op = "detectConflicts" =>
        /\ \A g \in 1..Len(last.result) :
              LET members == last.result[g].bindings
              IN  /\ Len(members) >= 2
                  /\ \A i \in 1..Len(members) :
                        /\ normalizeKey(members[i].key) = normalizeKey(members[1].key)
                        /\ contextsOverlap(members[1].when, members[i].when)
                  /\ members = SelectSeq(Detected, LAMBDA b : InGroup(b, last.result[g]))
        /\ \A g, h \in 1..Len(last.result) :
              g < h =>
                  /\ \A i \in 1..Len(last.result[g].bindings) :
                        ~InGroup(last.result[g].bindings[i], last.result[h])
                  /\ \/ BucketOf(last.result[g]) < BucketOf(last.result[h])
                     \/ /\ BucketOf(last.result[g]) = BucketOf(last.result[h])
                        /\ SeedAt(last.result[g]) < SeedAt(last.result[h])

\* two groups from two buckets, each a user binding followed by an extension
\* binding whose key is written differently
C32_Witness ==
    /\ last.op = "detectConflicts"
    /\ Len(last.result) = 2
    /\ BucketOf(last.result[1]) < BucketOf(last.result[2])
    /\ \A g \in 1..2 :
          /\ last.result[g].bindings[1].source = "user"
          /\ last.result[g].bindings[2].source = "extension"
          /\ last.result[g].bindings[1].key # last.result[g].bindings[2].key

---------------------------------------------------------------------------
(* Claims about the overlap of contexts (SpecContext) *)

\* the value a term of a context gives its flag or key, as written: a bare
\* flag is true, a negated flag is false, an equality test names its value
Term(part) ==
    IF startsWithBang(part) THEN [key |-> substring1(part), value |-> "false"]
    ELSE IF includesEquals(part)
    THEN [key |-> splitEquals(part)[1], value |-> splitEquals(part)[2]]
    ELSE [key |-> part, value |-> "true"]

Terms(when) == { Term(splitAnd(when)[i]) : i \in 1..Len(splitAnd(when)) }

\* C33: the overlap of two contexts is symmetric, holds whenever one of the
\* two is absent, and for two conjunctions of bare flags, negated flags and
\* equality tests fails exactly when the two give some flag or key different
\* values.
C33_OverlapRelation ==
    last.op = "contextsOverlap" =>
        /\ last.result = last.reverse
        /\ (~Truthy(last.when1) \/ ~Truthy(last.when2)) => last.result
        /\ (Truthy(last.when1) /\ Truthy(last.when2)) =>
              ( last.result = FALSE
                <=> \E t1 \in Terms(last.when1), t2 \in Terms(last.when2) :
                       t1.key = t2.key /\ t1.value # t2.value )

\* the entry a governance action wrote to switch the binding off
HasNegationEntry(f, kb) ==
    \E i \in 1..Len(f) :
        /\ f[i].by = "harmonia"
        /\ f[i].key = kb.key
        /\ f[i].command = "-" \o kb.command
        /\ f[i].when = WrittenWhen(kb.when)

\* the entry a remap wrote to bind the command of the binding to another key
HasRemapEntry(f, kb) ==
    \E i \in 1..Len(f) :
        /\ f[i].by = "harmonia"
        /\ f[i].key # kb.key
        /\ f[i].command = kb.command
        /\ f[i].when = WrittenWhen(kb.when)

\* C34: between governance actions the file holds the negation entry of a
\* binding exactly when the binding's status is deactivated or remapped, and
\* holds the entry for the remapped key exactly when its status is remapped:
\* no decision is without its entries and no entry without its decision.
C34_EntriesMatchDecisions ==
    \A kb \in Bindings :
        /\ HasNegationEntry(file, kb)
              <=> getStatus(mem, kb.id) \in {"deactivated", "remapped"}
        /\ getStatus(mem, kb.id) = "remapped" =>
              \E i \in 1..Len(file) :
                  /\ file[i].by = "harmonia"
                  /\ file[i].key = mem.decisions[kb.id].remappedKey
                  /\ file[i].command = kb.command
                  /\ file[i].when = WrittenWhen(kb.when)
        /\ HasRemapEntry(file, kb) => getStatus(mem, kb.id) = "remapped"

\* the negation entries governance actions wrote for the binding
NegationEntries(f, kb) ==
    { i \in 1..Len(f) :
        /\ f[i].by = "harmonia"
        /\ f[i].key = kb.key
        /\ f[i].command = "-" \o kb.command
        /\ f[i].when = WrittenWhen(kb.when) }

\* C35: deactivating a binding that is deactivated already appends no further
\* negation entry: after any governance actions the file holds at most one
\* negation entry for each deactivated binding.
C35_OneNegationPerBinding ==
    \A kb \in Bindings :
        getStatus(mem, kb.id) = "deactivated" =>
            Cardinality(NegationEntries(file, kb)) <= 1

---------------------------------------------------------------------------
(* Claims about reverting a decision (Spec) *)

\* GovernanceService.getStatistics
getStatistics(state) ==
    LET decisions == state.decisions
        withStatus(s) == Cardinality({ id \in DOMAIN decisions : decisions[id].status = s })
    IN  [total |-> Cardinality(DOMAIN decisions),
         pending |-> 0,
         approved |-> withStatus("approved"),
         deactivated |-> withStatus("deactivated"),
         remapped |-> withStatus("remapped"),
         skipped |-> withStatus("skipped")]

\* C36: undo and restore revert a binding to pending by deleting its
\* decision: after an unapprove, a restore of a deactivated binding or an undo
\* of a remap, the state holds no decision for a binding whose status is
\* pending, and the statistics count the decided bindings only.
C36_RevertDeletesDecision ==
    last.op \in {"unapprove", "restore", "restoreRemap"} =>
        /\ \A kb \in Bindings :
              getStatus(mem, kb.id) = "pending" => kb.id \notin DOMAIN mem.decisions
        /\ getStatistics(mem).total =
              Cardinality({ kb \in Bindings : getStatus(mem, kb.id) # "pending" })

---------------------------------------------------------------------------
(* Claims about calls of recordDecision in flight together (SpecConc) *)

Completed(i) == tasks[i].pc > Len(StepsOf(tasks[i].op))

\* what the call of task t leaves in a state
EffectIn(state, t) ==
    IF t.op = "unapprove" THEN t.kb.id \notin DOMAIN state.decisions
    ELSE /\ t.kb.id \in DOMAIN state.decisions
         /\ state.decisions[t.kb.id].status =
               (CASE t.op = "deactivate" -> "deactivated"
                  [] t.op = "remap" -> "remapped"
                  [] OTHER -> "approved")

\* C37: calls of recordDecision or unapproveKeybinding for different
\* bindings that overlap lose no decision: the update called last is called
\* with the live state, and once all calls have completed, the live state and
\* the persisted state are equal and hold the effect of each call that was
\* the only one for its binding.
C37_NoLostDecision ==
    ~crashed =>
        /\ updateQueue # << >> => updateQueue[Len(updateQueue)].state = mem
        /\ ( /\ Len(tasks) >= 2
             /\ \A i \in DOMAIN tasks : Completed(i) )
           => /\ mem = persisted
              /\ \A i \in DOMAIN tasks :
                    (\A j \in DOMAIN tasks : tasks[j].kb = tasks[i].kb => j = i)
                    => EffectIn(mem, tasks[i]) /\ EffectIn(persisted, tasks[i])

\* two calls for two bindings, each suspended in saveState: neither update
\* has completed and the live state holds both decisions
C37_Witness ==
    /\ ~crashed
    /\ Len(tasks) = 2
    /\ tasks[1].kb # tasks[2].kb
    /\ AtStep(1, "update") /\ AtStep(2, "update")
    /\ Len(updateQueue) = 2
    /\ tasks[1].op = "approve" /\ tasks[2].op = "deactivate"
    /\ DOMAIN mem.decisions = { tasks[1].kb.id, tasks[2].kb.id }
    /\ persisted = createEmptyGovernanceState

---------------------------------------------------------------------------
(* Claims about deactivate-all-conflicting (SpecBatch) *)

\* the groups the handler detected: those of the file and the state it read
DetectedBefore == getAuditData(last.before.file, last.before.mem).allConflicts

\* C38: when a confirmed deactivate-all-conflicting has completed, every
\* extension binding that was a member of a detected group is deactivated
\* and the audit view built next shows no conflict: the bindings that remain
\* form no group that holds an extension binding.
C38_NoConflictAfterwards ==
    (last.op = "deactivateAllConflicting" /\ last.answer = "Yes") =>
        /\ \A g \in 1..Len(DetectedBefore) :
              \A i \in 1..Len(DetectedBefore[g].bindings) :
                  DetectedBefore[g].bindings[i].source = "extension" =>
                      getStatus(mem, DetectedBefore[g].bindings[i].id) = "deactivated"
        /\ getAuditData(file, mem).conflicts = << >>
        /\ getAuditData(file, mem).stats.conflicts = 0

\* two groups were detected, one of them holding a binding of the user, and
\* their three extension bindings are deactivated
C38_Witness ==
    /\ last.op = "deactivateAllConflicting"
    /\ last.answer = "Yes"
    /\ Len(DetectedBefore) = 2
    /\ \E g \in 1..2 : DetectedBefore[g].involvesUserBinding
    /\ \A kb \in Bindings : getStatus(mem, kb.id) = "deactivated"
    /\ Len(file) = Len(last.before.file) + 3

---------------------------------------------------------------------------
(* SpecRewrite: keybindings.json as characters; deactivateKeybinding and *)
(* remapKeybinding of KeybindingsFileService, from read() to write()     *)

\* the characters of the strings the two operations write
Chars(string) ==
    CASE string = "key" -> << "k", "e", "y" >>
      [] string = "command" -> << "c", "o", "m", "m", "a", "n", "d" >>
      [] string = "ctrl+k" -> << "c", "t", "r", "l", "+", "k" >>
      [] string = "ctrl+m" -> << "c", "t", "r", "l", "+", "m" >>
      [] string = "ext.a" -> << "e", "x", "t", ".", "a" >>
      [] string = "-ext.a" -> << "-", "e", "x", "t", ".", "a" >>

StringValue(string) == << "str" >> \o Chars(string) \o << "end" >>

\* the object { key, command } as a parsed value
EntryValue(key, command) ==
    << "{" >> \o StringValue("key") \o StringValue(key)
        \o StringValue("command") \o StringValue(command) \o << "}" >>

\* the n-th of the positions of S
Nth(S, n) == CHOOSE i \in S : Cardinality({ j \in S : j <= i }) = n

\* the parts of a parsed value between the n-th `open` and the n-th `close`
Between(value, open, close) ==
    LET opens == { i \in 1..Len(value) : value[i] = open }
        closes == { i \in 1..Len(value) : value[i] = close }
    IN  [n \in 1..Cardinality(closes) |->
            SubSeq(value, Nth(opens, n), Nth(closes, n))]

\* the elements of a parsed array of objects
Elements(value) == Between(value, "{", "}")

RECURSIVE Flatten(_)
Flatten(elements) ==
    IF elements = << >> THEN << >> ELSE Head(elements) \o Flatten(Tail(elements))

ArrayValue(elements) == << "[" >> \o Flatten(elements) \o << "]" >>

\* the strings of a parsed object, its names and values in turn, each as its
\* characters
Strings(element) ==
    LET parts == Between(element, "str", "end")
    IN  [n \in 1..Len(parts) |-> SubSeq(parts[n], 2, Len(parts[n]) - 1)]

\* kb.command of an element of the array, << >> when it has none
commandOf(element) ==
    LET strings == Strings(element)
        at == { i \in 1..Len(strings) : i % 2 = 1 /\ strings[i] = Chars("command") }
    IN  IF at = {} THEN << >> ELSE << strings[Nth(at, Cardinality(at)) + 1] >>

\* JSON.stringify of a string: quotes and backslashes are escaped
quoted(chars) ==
    << QUOTE >>
        \o Flatten([i \in 1..Len(chars) |->
                        IF chars[i] \in {QUOTE, BACKSLASH} THEN << BACKSLASH, chars[i] >>
                        ELSE << chars[i] >>])
        \o << QUOTE >>

\* JSON.stringify(value, null, 2) of an object of an array, its members
\* strings
stringifyObject(element) ==
    LET strings == Strings(element)
        member(n) == (IF n > 1 THEN << "," >> ELSE << >>)
                        \o << NEWLINE, " ", " ", " ", " " >>
                        \o quoted(strings[2 * n - 1]) \o << ":", " " >>
                        \o quoted(strings[2 * n])
    IN  IF strings = << >> THEN << "{", "}" >>
        ELSE << "{" >> \o Flatten([n \in 1..(Len(strings) \div 2) |-> member(n)])
                \o << NEWLINE, " ", " ", "}" >>

\* JSON.stringify(keybindings, null, 2) of a parsed array of objects
stringify(value) ==
    LET elements == Elements(value)
        item(n) == (IF n > 1 THEN << "," >> ELSE << >>)
                      \o << NEWLINE, " ", " " >> \o stringifyObject(elements[n])
    IN  IF elements = << >> THEN << "[", "]" >>
        ELSE << "[" >> \o Flatten([n \in 1..Len(elements) |-> item(n)])
                \o << NEWLINE, "]" >>

\* write(keybindings): the text it leaves in the file
writeText(keybindings) == stringify(keybindings)

\* addEntry(entry): read(), push, write()
addEntryText(input, entry) ==
    LET keybindings == read(input).value
    IN  writeText(ArrayValue(Append(Elements(keybindings), entry)))

\* deactivateKeybinding(key, command) without a context
deactivateKeybindingText(input, key, command) ==
    addEntryText(input, EntryValue(key, "-" \o command))

\* remapKeybinding(originalKey, newKey, command) without a context
remapKeybindingText(input, originalKey, newKey, command) ==
    LET keybindings == Elements(read(input).value)
        negatedCommand == "-" \o command
        kept == SelectSeq(keybindings,
                          LAMBDA kb : /\ commandOf(kb) # << Chars(negatedCommand) >>
                                      /\ commandOf(kb) # << Chars(command) >>)
    IN  writeText(ArrayValue(kept \o << EntryValue(originalKey, negatedCommand),
                                        EntryValue(newKey, command) >>))

RewriteRecord(op, content) == [op |-> op, content |-> content]

TextDeactivate ==
    /\ nOps = 0
    /\ nOps' = 1
    /\ last' = RewriteRecord("deactivate", deactivateKeybindingText(arg, "ctrl+k", "ext.a"))
    /\ UNCHANGED <<fileVars, govVars, prevOp, taskVars, initialFile, otherVars>>

TextRemap ==
    /\ nOps = 0
    /\ nOps' = 1
    /\ last' = RewriteRecord("remap",
                             remapKeybindingText(arg, "ctrl+k", "ctrl+m", "ext.a"))
    /\ UNCHANGED <<fileVars, govVars, prevOp, taskVars, initialFile, otherVars>>

NextRewrite == TextDeactivate \/ TextRemap

SpecRewrite == InitText /\ [][NextRewrite]_vars

---------------------------------------------------------------------------
(* Claims about what a rewrite of the file keeps (SpecRewrite) *)

\* the text holds the characters of `part` somewhere
OccursIn(part, text) ==
    \E i \in 1..(Len(text) - Len(part) + 1) : SubSeq(text, i, i + Len(part) - 1) = part

\* the entries the file held before: those of the list when the text is a
\* list with or without comments, and else every entry written in the text
EntriesBefore(input) ==
    IF input.missing THEN {}
    ELSE IF input.isList
    THEN { Elements(JSONparseText(input.plain).value)[i] :
             i \in 1..Len(Elements(JSONparseText(input.plain).value)) }
    ELSE { parseValue(EntryText(l), 1).out :
             l \in { k \in KeyLiterals : OccursIn(EntryText(k), input.text) } }

\* the entries of the text a write left
EntriesWritten(content) ==
    { Elements(JSONparseText(content).value)[i] :
        i \in 1..Len(Elements(JSONparseText(content).value)) }

\* C39: whatever keybindings.json holds, text that read() cannot parse
\* included, after deactivateKeybinding or remapKeybinding every entry the
\* file held before is in the file, but for the entries of the command that
\* a remap removes.
C39_RewriteKeepsEntries ==
    last.op \in {"deactivate", "remap"} =>
        /\ ~JSONparseText(last.content).threw
        /\ EntriesBefore(arg) \subseteq EntriesWritten(last.content)

---------------------------------------------------------------------------
(* Claims about the Base designation (SpecSnapshotOps) *)

\* the snapshot createBaseSnapshot created first
FirstBaseId == created[CHOOSE i \in BaseCreations : \A j \in BaseCreations : i <= j].snapshot.id

\* C40: once createBaseSnapshot has created Base, after any create, rename
\* and delete commands exactly one stored snapshot is treated as Base, the
\* one bearing Base's name, and it is the snapshot createBaseSnapshot created.
C40_OneBase ==
    BaseCreations # {} =>
        /\ Cardinality(NamedBase(snapshots)) = 1
        /\ \A i \in NamedBase(snapshots) : snapshots[i].id = FirstBaseId

=============================================================================
